---- MODULE Spec2Model ----
(***************************************************************************)
(* Model of the HS-1 fusion reactor simulation engine                      *)
(* (src/HS-1/simulator.py, class FusionReactorSimulator).                  *)
(*                                                                         *)
(* Units.  All quantities are integers in scaled units:                    *)
(*   temperature        1 unit = 1e6 K   (clamp bounds 1e6 K, 500e6 K)     *)
(*   density            1 unit = 1e20 m^-3                                 *)
(*   power              1 unit = 1 kW                                      *)
(*   time               1 unit = 1 s     (grace periods 30 s, 60 s)        *)
(*   fuel inventories   1 unit = 1e21 atoms (min_fuel_atoms = 1e22)        *)
(*   fuel rates         1 unit = the atoms burnt per second by 1 kW of     *)
(*                      fusion power, 3.546e14 atoms/s; 1e21 atoms are     *)
(*                      burnt by 2819831 kW s                              *)
(*   damage             1 unit = 1e-6 DPA (max_dpa = 100 DPA)              *)
(*   damage rate        1 unit = 1e-6 DPA per year                         *)
(*   energy             1 unit = 1 GJ                                      *)
(*   runtime projection a quotient of years (31557600 s) when the damage   *)
(*                      limits the runtime, of units of 2819831 s, the     *)
(*                      time 1 kW takes to burn 1e21 atoms, when the       *)
(*                      tritium does                                       *)
(*   score              1 unit = 1e-6                                      *)
(*   safety factor      1 unit = 0.1                                       *)
(*   first wall         1 unit = 1 K                                       *)
(* A quantity the code computes in floating point is rounded to its unit.  *)
(*                                                                         *)
(* The configurations of the model have the default geometry (major radius *)
(* 6.2 m, minor radius 2.0 m, elongation 1.7, triangularity 0.33), the     *)
(* default toroidal field (5.3 T) and the default blanket material         *)
(* (lithium_lead): the plasma volume and the first wall area are those of  *)
(* this geometry, 832.2 m^3 and 832.2 m^2.  The transcendental plasma      *)
(* formulas (reaction rate coefficient, radiation losses, confinement      *)
(* scaling) are tabulated from the code at the densities, temperatures and *)
(* plasma currents of the model.                                           *)
(***************************************************************************)
EXTENDS Integers, Sequences, FiniteSets, TLC

VARIABLES
    config,               \* self.config
    current_temperature,  \* self.current_temperature
    current_density,      \* self.current_density
    tritium_inventory,    \* self.tritium_inventory
    deuterium_inventory,  \* self.deuterium_inventory
    accumulated_damage,   \* self.accumulated_damage
    simulation_time,      \* self.simulation_time
    history,              \* self.history
    current_state,        \* self.current_state (<<>> is None)
    state,                \* run(): local variable state (<<>> outside a run)
    last_save_time,       \* run(): local variable last_save_time
    max_time,             \* run(): argument
    dt,                   \* run(): argument
    save_interval,        \* run(): argument
    pc,                   \* "idle" (constructed), "loop" (inside run), "done" (run returned), "optimized" (optimize_parameters returned)
    stats,                \* record returned by get_operation_statistics, until the next call (<<>> if none)
    runs,                 \* number of run() calls started
    calls,                \* number of direct calls of evolve_state since the last run
    search,               \* state of a spsa_optimize call (<<>> if none was made)
    raised,               \* exception raised by the last get_operation_statistics call ("" if none)
    previous,             \* history and returned snapshot of the run before the current one (<<>> if none)
    computed,             \* snapshot returned by the last direct call of calculate_state, while the state is as it was (<<>> if none)
    probe                 \* last call of a stateless helper: operation, arguments, result (<<>> if none)

vars == <<config, current_temperature, current_density, tritium_inventory,
          deuterium_inventory, accumulated_damage, simulation_time, history,
          current_state, state, last_save_time, max_time, dt, save_interval,
          pc, stats, raised, runs, calls, previous, computed, probe, search>>

(***************************************************************************)
(* Bounds of the model.                                                    *)
(***************************************************************************)
MaxTimeBound == 50
MaxRuns == 2
MaxCalls == 1

(***************************************************************************)
(* Program constants.                                                      *)
(***************************************************************************)
TEMP_MIN == 1
TEMP_MAX == 500
MIN_FUEL_ATOMS == 10
DEFAULT_MAX_DAMAGE == 100000000
STARTUP_TOLERANCE == 30
LAWSON_STARTUP_TIME == 60
COOLANT_TEMP == 300
SECONDS_PER_YEAR == 31557600

\* 17.6 MeV per fusion: the fusion energy of 1e21 atoms of each fuel, in kW s
ENERGY_PER_FUSION == 2819831

Max(a, b) == IF a >= b THEN a ELSE b
Min(a, b) == IF a <= b THEN a ELSE b

Abs(a) == IF a < 0 THEN 0 - a ELSE a

\* the product a * b of a, b >= 0 as the quotient q and the remainder r of
\* its division by c > 0 (a * b = q * c + r, 0 <= r < c), by halving b: no
\* intermediate value exceeds 3 * c or the quotient.  Doubled(h, a, bit, c)
\* is 2 * h + bit * a for a product h.
Doubled(h, a, bit, c) ==
    [q |-> 2 * h.q + bit * (a \div c) + (2 * h.r + bit * (a % c)) \div c,
     r |-> (2 * h.r + bit * (a % c)) % c]

RECURSIVE Product(_, _, _)
Product(a, b, c) ==
    IF b = 0 THEN [q |-> 0, r |-> 0]
    ELSE CHOOSE p \in {Doubled(h, a, b % 2, c) : h \in {Product(a, b \div 2, c)}} : TRUE

\* a * b / c for a, b >= 0 and c > 0, rounded to the nearest integer
Scaled(a, b, c) ==
    CHOOSE s \in {p.q + (IF 2 * p.r >= c THEN 1 ELSE 0) : p \in {Product(a, b, c)}} : TRUE

(***************************************************************************)
(* Material database (materials/materials.py): the first wall materials of *)
(* the model.  Every material has the default max_dpa of 100 DPA.          *)
(***************************************************************************)
Materials == {"tungsten", "beryllium", "eurofer97"}

MaxOperatingTemp(m) ==
    CASE m = "tungsten" -> 1500
      [] m = "beryllium" -> 800
      [] m = "eurofer97" -> 550

\* thermal_conductivity, W/(m K)
ThermalConductivity(m) ==
    CASE m = "tungsten" -> 173
      [] m = "beryllium" -> 190
      [] m = "eurofer97" -> 28

MaxDpa(m) == IF m \in Materials THEN 100000000 ELSE DEFAULT_MAX_DAMAGE

(***************************************************************************)
(* Configurations: the fields of ReactorConfiguration that differ between  *)
(* the configurations of the model.                                        *)
(***************************************************************************)
InitialTemperatures == {150, 600}
InitialDensities == {0, 1, 2}
InitialTritium == {50, 10000}
InitialDeuterium == {12, 100000}
MinTritium == {100}
InputPowers == {0, 50000}
AuxiliaryHeatings == {0, 33000}
PlasmaCurrents == {5, 7, 10, 15}
BlanketThicknesses == {1, 10}
FirstWallMaterials == {"tungsten", "eurofer97", "unobtainium"}

AllConfigs ==
    [initial_temperature : InitialTemperatures,
     initial_density : InitialDensities,
     initial_tritium_inventory : InitialTritium,
     initial_deuterium_inventory : InitialDeuterium,
     min_tritium_inventory : MinTritium,
     input_power : InputPowers,
     auxiliary_heating : AuxiliaryHeatings,
     current_drive_power : {0},
     first_wall_material : FirstWallMaterials,
     blanket_thickness : BlanketThicknesses,
     plasma_current : PlasmaCurrents]

\* the dataclass ReactorConfiguration with its defaults: the radii in
\* 1e-6 m, the elongation in 1e-6, the field in 1e-6 T (the fields a
\* gradient step of the parameter search moves by fractions), the
\* triangularity in 0.01, the blanket thickness in 0.1 m, the current in MA,
\* the temperature in 1e6 K, the density in 1e20 m^-3, powers in kW,
\* inventories in 1e21 atoms
ReactorConfiguration ==
    [major_radius |-> 6200000,
     minor_radius |-> 2000000,
     elongation |-> 1700000,
     triangularity |-> 33,
     toroidal_field |-> 5300000,
     plasma_current |-> 15,
     initial_temperature |-> 150,
     initial_density |-> 1,
     first_wall_material |-> "tungsten",
     blanket_material |-> "lithium_lead",
     blanket_thickness |-> 10,
     input_power |-> 50000,
     auxiliary_heating |-> 33000,
     current_drive_power |-> 0,
     initial_tritium_inventory |-> 10000,
     initial_deuterium_inventory |-> 100000,
     min_tritium_inventory |-> 100]

\* the reference configuration of the model: the defaults of
\* ReactorConfiguration with a plasma current of 5 MA, whose safety factor
\* is 3.4 (the default current of 15 MA gives q = 1.14)
ReferenceConfig ==
    [initial_temperature |-> ReactorConfiguration.initial_temperature,
     initial_density |-> ReactorConfiguration.initial_density,
     initial_tritium_inventory |-> ReactorConfiguration.initial_tritium_inventory,
     initial_deuterium_inventory |-> ReactorConfiguration.initial_deuterium_inventory,
     min_tritium_inventory |-> ReactorConfiguration.min_tritium_inventory,
     input_power |-> ReactorConfiguration.input_power,
     auxiliary_heating |-> ReactorConfiguration.auxiliary_heating,
     current_drive_power |-> ReactorConfiguration.current_drive_power,
     first_wall_material |-> ReactorConfiguration.first_wall_material,
     blanket_thickness |-> ReactorConfiguration.blanket_thickness,
     plasma_current |-> 5]

\* a cold plasma without heating: initial_temperature = 50e6 K,
\* input_power = 0, auxiliary_heating = 0
ColdConfig ==
    [ReferenceConfig EXCEPT !.initial_temperature = 50,
                            !.input_power = 0,
                            !.auxiliary_heating = 0]

\* the configurations of the model: the reference with at most two fields
\* changed, and the cold plasma
Deviations(cfg) == Cardinality({f \in DOMAIN cfg : cfg[f] # ReferenceConfig[f]})

Configs == {cfg \in AllConfigs : Deviations(cfg) <= 2} \cup {ColdConfig}

(***************************************************************************)
(* The plasma formulas (physics/plasma.py) at the plasma volume of the     *)
(* model, tabulated at the temperatures its configurations reach.          *)
(***************************************************************************)
\* calculate_fusion_power_density (110-122) times the plasma volume, in kW,
\* at a density of 1e20 m^-3; the rate coefficient is 0 below 0.1 keV
FusionPowerTable(temperature) ==
    CASE temperature = 1 -> 0
      [] temperature = 50 -> 3907
      [] temperature = 150 -> 80475
      [] temperature = 500 -> 598210
      [] temperature = 600 -> 740829

\* the reaction rate is n_D * n_T * <sigma v> with n_D = n_T = n / 2
FusionPower(density, temperature) ==
    IF density = 0 THEN 0
    ELSE density * density * FusionPowerTable(temperature)

\* bremsstrahlung and synchrotron loss (124-171) times the plasma volume, in
\* kW, at a density of 1e20 m^-3 and of 2e20 m^-3
TotalLossTable(density, temperature) ==
    CASE density = 1 /\ temperature = 1 -> 2992
      [] density = 1 /\ temperature = 50 -> 31191
      [] density = 1 /\ temperature = 150 -> 54024
      [] density = 1 /\ temperature = 500 -> 98635
      [] density = 1 /\ temperature = 600 -> 108049
      [] density = 2 /\ temperature = 1 -> 11865
      [] density = 2 /\ temperature = 50 -> 124764
      [] density = 2 /\ temperature = 150 -> 216098
      [] density = 2 /\ temperature = 500 -> 394538
      [] density = 2 /\ temperature = 600 -> 432195

TotalLoss(density, temperature) ==
    IF density = 0 THEN 0
    ELSE TotalLossTable(density, temperature)

(***************************************************************************)
(* The magnetic formulas (HS-1/physics/magnetic.py) at the geometry and    *)
(* the field of the model.                                                 *)
(***************************************************************************)
\* calculate_safety_factor (111-130): q = 17.097 / I for a current of I MA,
\* in tenths
SafetyFactor(cfg) == 171 \div cfg.plasma_current

\* calculate_beta (132-146) of the plasma pressure and the magnetic
\* pressure: beta = 1.2353e-4 * n * T; the comparison beta > 0.1
BetaIsHigh(density, temperature) == density * temperature * 12353 > 10000000

\* calculate_confinement_time_scaling (193-279), in ms, at a density of
\* 1e20 m^-3 and of 2e20 m^-3, by plasma current (MA) and external heating
\* (auxiliary_heating + current_drive_power, kW); the ohmic heating moves
\* it by less than 0.01 ms over the temperatures of the model
ConfinementTimeTable(density, current, heating) ==
    CASE density = 1 /\ current = 5 /\ heating = 0 -> 563
      [] density = 1 /\ current = 5 /\ heating = 33000 -> 508
      [] density = 1 /\ current = 7 /\ heating = 0 -> 486
      [] density = 1 /\ current = 7 /\ heating = 33000 -> 488
      [] density = 1 /\ current = 10 /\ heating = 0 -> 415
      [] density = 1 /\ current = 10 /\ heating = 33000 -> 445
      [] density = 1 /\ current = 15 /\ heating = 0 -> 346
      [] density = 1 /\ current = 15 /\ heating = 33000 -> 386
      [] density = 2 /\ current = 5 /\ heating = 0 -> 748
      [] density = 2 /\ current = 5 /\ heating = 33000 -> 675
      [] density = 2 /\ current = 7 /\ heating = 0 -> 646
      [] density = 2 /\ current = 7 /\ heating = 33000 -> 649
      [] density = 2 /\ current = 10 /\ heating = 0 -> 552
      [] density = 2 /\ current = 10 /\ heating = 33000 -> 592
      [] density = 2 /\ current = 15 /\ heating = 0 -> 460
      [] density = 2 /\ current = 15 /\ heating = 33000 -> 513

\* check_lawson_criterion (physics/plasma.py 189-214): n * tau >= 1e20 s/m^3
\* and 5 keV <= T <= 60 keV, with 1e6 K = 0.086173 keV
MeetsLawsonCriterion(cfg, density, temperature) ==
    /\ density > 0
    /\ density * ConfinementTimeTable(density, cfg.plasma_current,
                                      cfg.auxiliary_heating + cfg.current_drive_power) >= 1000
    /\ 5000000 <= temperature * 86173
    /\ temperature * 86173 <= 60000000

(***************************************************************************)
(* PowerCalculator.calculate_q_factor (physics/power.py 40-56).  A quotient *)
(* is the fraction num/den in lowest terms with den > 0; +infinity is the  *)
(* fraction 1/0.                                                           *)
(***************************************************************************)
RECURSIVE GCD(_, _)
GCD(a, b) == IF b = 0 THEN a ELSE GCD(b, a % b)

Quotient(n, d) ==
    LET g == GCD(Abs(n), Abs(d))
        s == IF d < 0 THEN 0 - 1 ELSE 1
    IN  [num |-> (s * n) \div g, den |-> (s * d) \div g]

Infinity == [num |-> 1, den |-> 0]

IsInf(q) == q.den = 0

CalculateQFactorIgnoringZeroInput(fusion_power, input_power) ==
    IF input_power = 0 THEN Quotient(0, 1) ELSE Quotient(fusion_power, input_power)

CalculateQFactor(fusion_power, input_power) ==
    IF input_power = 0
    THEN (IF fusion_power > 0 THEN Infinity ELSE Quotient(0, 1))
    ELSE Quotient(fusion_power, input_power)

(***************************************************************************)
(* calculate_state: power balance, neutronics, first wall.                 *)
(***************************************************************************)
TotalInputConfigured(cfg) == cfg.input_power

TotalInput(cfg) ==
    IF cfg.input_power > 0
    THEN cfg.input_power
    ELSE cfg.auxiliary_heating + cfg.current_drive_power

\* calculate_tritium_consumption (neutronics.py 133-150): one atom per
\* fusion, fusion_power / energy_per_fusion
TritiumConsumption(fusion_power) == fusion_power

\* calculate_tritium_production (neutronics.py 91-114): neutron flux times
\* lithium density, cross section and blanket thickness; for lithium_lead
\* and the first wall area of the model, 0.772206 atoms per fusion and per
\* 0.1 m of blanket
TritiumProduction(cfg, fusion_power) ==
    Scaled(fusion_power * cfg.blanket_thickness, 772206, 1000000)

\* tritium_breeding_ratio < 1.0, with calculate_tritium_breeding_ratio's
\* sentinels: consumption 0 gives +infinity if production > 0, else 0.
BreedingRatioBelowOne(production, consumption) ==
    IF consumption = 0
    THEN ~(production > 0)
    ELSE production < consumption

\* calculate_dpa_rate (neutronics.py 152-171) of the neutron flux through
\* the first wall area of the model: 1.34478e-5 DPA per year and kW
DpaRate(cfg, fusion_power) == Scaled(fusion_power, 134478, 10000)

\* 251-253: 300 K + heat flux * 0.01 m / thermal conductivity, the heat
\* flux being the neutron wall loading, 0.8 * fusion power / first wall
\* area: 9.62667e-3 K W/(m K) per kW
FirstWallTemp(cfg, fusion_power) ==
    IF cfg.first_wall_material \in Materials
    THEN COOLANT_TEMP
         + Scaled(fusion_power, 9627, 1000000 * ThermalConductivity(cfg.first_wall_material))
    ELSE 0

(***************************************************************************)
(* calculate_state: diagnostics.  An error or warning is named by a tag;   *)
(* Keywords(e) is the set of the keywords of the failure detection that    *)
(* occur in the lower-cased text of the message:                           *)
(*   fw_temp    "First wall temperature (..) exceeds material limit (..)"  *)
(*   q_crit     "Safety factor (q=..) critically low (minimum: 1.5)"       *)
(*   q_low      "Safety factor (q=..) too low (minimum: 2.0)"              *)
(*   lawson     "Plasma does not meet Lawson criterion for ignition"       *)
(*   tbr        "Tritium breeding ratio (..) < 1.0 (cannot sustain ..)"    *)
(*   damage     "Material damage (.. DPA) exceeds limit (.. DPA)"          *)
(*   tritium    "Tritium inventory (..) below minimum (..)"                *)
(*   deuterium  "Deuterium inventory (..) too low"                         *)
(* and the warnings:                                                       *)
(*   fw_temp_high    "First wall temperature (..) approaching limit"       *)
(*   q_startup       "Safety factor (q=..) is low (may stabilize ..)"      *)
(*   q_warn          "Safety factor (q=..) is low"                         *)
(*   beta_high       "Beta (..) is high, may affect stability"             *)
(*   lawson_startup  "Plasma does not yet meet Lawson criterion (..)"      *)
(*   damage_high     "High material damage: .. DPA (limit: .. DPA)"        *)
(***************************************************************************)
KeywordsBreedingApart(e) ==
    CASE e = "fw_temp"   -> {"temperature"}
      [] e = "q_crit"    -> {"safety", "critically"}
      [] e = "q_low"     -> {"safety"}
      [] e = "lawson"    -> {"lawson"}
      [] e = "tbr"       -> {}
      [] e = "damage"    -> {"damage"}
      [] e = "tritium"   -> {"tritium"}
      [] e = "deuterium" -> {"deuterium"}
      [] OTHER           -> {}

Keywords(e) ==
    CASE e = "fw_temp"   -> {"temperature"}
      [] e = "q_crit"    -> {"safety", "critically"}
      [] e = "q_low"     -> {"safety"}
      [] e = "lawson"    -> {"lawson"}
      [] e = "tbr"       -> {"tritium"}
      [] e = "damage"    -> {"damage"}
      [] e = "tritium"   -> {"tritium"}
      [] e = "deuterium" -> {"deuterium"}
      [] OTHER           -> {}

AlwaysCriticalButCriticallyLow == {"temperature", "damage", "tritium", "deuterium"}

AlwaysCritical == {"temperature", "damage", "tritium", "deuterium", "critically"}

FirstWallErrors(cfg, fw_temp) ==
    IF cfg.first_wall_material \in Materials
       /\ fw_temp > MaxOperatingTemp(cfg.first_wall_material)
    THEN <<"fw_temp">> ELSE <<>>

FirstWallWarnings(cfg, fw_temp) ==
    IF cfg.first_wall_material \in Materials
       /\ ~(fw_temp > MaxOperatingTemp(cfg.first_wall_material))
       /\ 10 * fw_temp > 8 * MaxOperatingTemp(cfg.first_wall_material)
    THEN <<"fw_temp_high">> ELSE <<>>

SafetyErrorsWithoutGrace(q, t) ==
    IF q < 15 THEN <<"q_crit">>
    ELSE IF q < 20 THEN <<"q_low">>
    ELSE <<>>

SafetyErrors(q, t) ==
    IF q < 15 THEN <<"q_crit">>
    ELSE IF q < 20 /\ t > STARTUP_TOLERANCE THEN <<"q_low">>
    ELSE <<>>

SafetyWarnings(q, t) ==
    IF q < 15 THEN <<>>
    ELSE IF q < 20
         THEN (IF t > STARTUP_TOLERANCE THEN <<>> ELSE <<"q_startup">>)
    ELSE IF q < 30 THEN <<"q_warn">>
    ELSE <<>>

\* 291-295
BetaWarnings(density, temperature) ==
    IF BetaIsHigh(density, temperature) THEN <<"beta_high">> ELSE <<>>

LawsonErrorsWithoutGrace(meets, t) ==
    IF ~meets THEN <<"lawson">> ELSE <<>>

LawsonErrors(meets, t) ==
    IF ~meets /\ t > LAWSON_STARTUP_TIME THEN <<"lawson">> ELSE <<>>

LawsonWarnings(meets, t) ==
    IF ~meets /\ ~(t > LAWSON_STARTUP_TIME) THEN <<"lawson_startup">> ELSE <<>>

BreedingErrors(production, consumption) ==
    IF BreedingRatioBelowOne(production, consumption) THEN <<"tbr">> ELSE <<>>

DamageErrors(cfg, damage) ==
    IF damage > MaxDpa(cfg.first_wall_material) THEN <<"damage">> ELSE <<>>

DamageWarnings(cfg, damage) ==
    IF ~(damage > MaxDpa(cfg.first_wall_material))
       /\ 10 * damage > 8 * MaxDpa(cfg.first_wall_material)
    THEN <<"damage_high">> ELSE <<>>

TritiumErrorsWhenEmpty(cfg, tritium) ==
    IF tritium < MIN_FUEL_ATOMS THEN <<"tritium">> ELSE <<>>

TritiumErrors(cfg, tritium) ==
    IF tritium < cfg.min_tritium_inventory THEN <<"tritium">> ELSE <<>>

DeuteriumErrors(deuterium) ==
    IF deuterium < MIN_FUEL_ATOMS THEN <<"deuterium">> ELSE <<>>

(***************************************************************************)
(* calculate_state: failure detection and operational status.              *)
(***************************************************************************)
IsCritical(e, t) ==
    \/ Keywords(e) \cap AlwaysCritical # {}
    \/ "safety" \in Keywords(e) /\ t > 30
    \/ "lawson" \in Keywords(e) /\ t > 60

CriticalErrors(errors, t) == SelectSeq(errors, LAMBDA e : IsCritical(e, t))

Mentions(errs, k) == \E i \in 1..Len(errs) : k \in Keywords(errs[i])

FailureCauseDamageFirst(critical) ==
    IF Mentions(critical, "damage") THEN "Material damage limit exceeded"
    ELSE IF Mentions(critical, "temperature") THEN "Material temperature limit exceeded"
    ELSE IF Mentions(critical, "tritium") THEN "Tritium inventory depleted"
    ELSE IF Mentions(critical, "deuterium") THEN "Deuterium inventory depleted"
    ELSE IF Mentions(critical, "lawson") THEN "Lawson criterion not met after startup period"
    ELSE IF Mentions(critical, "safety") THEN "Safety factor too low (plasma instability)"
    ELSE critical[1]

FailureCause(critical) ==
    IF Mentions(critical, "temperature") THEN "Material temperature limit exceeded"
    ELSE IF Mentions(critical, "damage") THEN "Material damage limit exceeded"
    ELSE IF Mentions(critical, "tritium") THEN "Tritium inventory depleted"
    ELSE IF Mentions(critical, "deuterium") THEN "Deuterium inventory depleted"
    ELSE IF Mentions(critical, "lawson") THEN "Lawson criterion not met after startup period"
    ELSE IF Mentions(critical, "safety") THEN "Safety factor too low (plasma instability)"
    ELSE critical[1]

Failed(errors, t) == Len(CriticalErrors(errors, t)) > 0

OperationalWhateverFailed(errors, failed) ==
    Len(SelectSeq(errors, LAMBDA e : Keywords(e) \cap AlwaysCritical # {})) = 0

Operational(errors, failed) ==
    ~failed /\ Len(SelectSeq(errors, LAMBDA e : Keywords(e) \cap AlwaysCritical # {})) = 0

\* 346-395 as a whole: the classification of an error list at elapsed time t
FailureDetection(errors, t) ==
    [failed |-> Failed(errors, t),
     failure_cause |-> IF Failed(errors, t)
                       THEN FailureCause(CriticalErrors(errors, t)) ELSE "",
     operational |-> Operational(errors, Failed(errors, t))]

(***************************************************************************)
(* calculate_state (simulator.py 126-419) for the configuration cfg and    *)
(* the time dependent state.                                               *)
(***************************************************************************)
CalculateState(cfg, density, temperature, tritium, deuterium, damage, t) ==
    LET fusion_power == FusionPower(density, temperature)
        total_input  == TotalInput(cfg)
        meets_lawson == MeetsLawsonCriterion(cfg, density, temperature)
        production   == TritiumProduction(cfg, fusion_power)
        consumption  == TritiumConsumption(fusion_power)
        fw_temp      == FirstWallTemp(cfg, fusion_power)
        errors       == FirstWallErrors(cfg, fw_temp)
                        \o SafetyErrors(SafetyFactor(cfg), t)
                        \o LawsonErrors(meets_lawson, t)
                        \o BreedingErrors(production, consumption)
                        \o DamageErrors(cfg, damage)
                        \o TritiumErrors(cfg, tritium)
                        \o DeuteriumErrors(deuterium)
        warnings     == FirstWallWarnings(cfg, fw_temp)
                        \o SafetyWarnings(SafetyFactor(cfg), t)
                        \o BetaWarnings(density, temperature)
                        \o LawsonWarnings(meets_lawson, t)
                        \o DamageWarnings(cfg, damage)
        failed       == Failed(errors, t)
        operational  == Operational(errors, failed)
    IN  [temperature |-> temperature,
         fusion_power |-> fusion_power,
         input_power |-> total_input,
         q_factor |-> CalculateQFactor(fusion_power, total_input),
         total_loss |-> TotalLoss(density, temperature),
         meets_lawson_criterion |-> meets_lawson,
         safety_factor |-> SafetyFactor(cfg),
         tritium_production_rate |-> production,
         tritium_consumption_rate |-> consumption,
         dpa_rate |-> DpaRate(cfg, fusion_power),
         first_wall_temp |-> fw_temp,
         errors |-> errors,
         warnings |-> warnings,
         operational |-> operational,
         failed |-> failed,
         failure_cause |-> IF failed THEN FailureCause(CriticalErrors(errors, t)) ELSE "",
         material_damage |-> damage,
         simulation_time |-> t,
         tritium_inventory |-> tritium,
         deuterium_inventory |-> deuterium]

(***************************************************************************)
(* evolve_state (simulator.py 421-483).  The time dependent state is the   *)
(* record ms of the attributes evolve_state assigns.                       *)
(***************************************************************************)
Mutable(temperature, tritium, deuterium, damage, t) ==
    [temperature |-> temperature, tritium |-> tritium, deuterium |-> deuterium,
     damage |-> damage, time |-> t]

\* the early return of evolve_state (429-430)
SkippedInverted(snap) == snap.failed \/ snap.operational

Skipped(snap) == snap.failed \/ ~snap.operational

ClampTemperature(temperature) == Max(TEMP_MIN, Min(TEMP_MAX, temperature))

NetHeating(snap) == snap.fusion_power + snap.input_power - snap.total_loss

\* 439: density * plasma volume * k_B, 1.149 J/K per 1e20 m^-3, in mJ/K:
\* 1 kW heats 1 mJ/K by 1e6 K per second
HeatCapacity(density) == density * 1149

\* the largest change of temperature the model tells apart: the temperatures
\* are below 1000e6 K and the clamp follows, so that a change of 1000e6 K or
\* more in one direction ends at the same clamp bound
LARGEST_CHANGE == 1000

\* 448: dT = (net_heating / heat_capacity) * dt
TemperatureChange(net_heating, heat_capacity, d) ==
    LET size == IF net_heating = 0 \/ d = 0 THEN 0
                ELSE IF d >= (LARGEST_CHANGE * heat_capacity + Abs(net_heating) - 1)
                             \div Abs(net_heating)
                THEN LARGEST_CHANGE
                ELSE Scaled(Abs(net_heating), d, heat_capacity)
    IN  IF net_heating < 0 THEN 0 - size ELSE size

\* 438-452
EvolveTemperature(snap, density, temperature, d) ==
    IF HeatCapacity(density) > 0
    THEN ClampTemperature(temperature
                          + TemperatureChange(NetHeating(snap), HeatCapacity(density), d))
    ELSE temperature

\* 459-465: consumption_rate * dt, the atoms burnt in d seconds at a fusion
\* power, in 1e21 atoms
Consumed(fusion_power, d) == Scaled(fusion_power, d, ENERGY_PER_FUSION)

\* 467-472
ConsumeFuelUnclamped(inventory, consumed) == inventory - consumed

ConsumeFuel(inventory, consumed) == Max(0, inventory - consumed)

\* 475-477
BreedTritium(inventory, production_rate, d) ==
    IF production_rate > 0
    THEN inventory + Scaled(production_rate, d, ENERGY_PER_FUSION)
    ELSE inventory

\* 481-483: dpa_rate / seconds_per_year * dt
AccumulateDamageSubtracting(damage, dpa_rate, d) ==
    damage - Scaled(dpa_rate, d, SECONDS_PER_YEAR)

AccumulateDamage(damage, dpa_rate, d) ==
    damage + Scaled(dpa_rate, d, SECONDS_PER_YEAR)

(***************************************************************************)
(* The attributes after evolve_state(d, snap): each is left alone by the   *)
(* early return and updated otherwise.                                     *)
(***************************************************************************)
NextTemperature(snap, density, temperature, d) ==
    IF Skipped(snap) THEN temperature
    ELSE EvolveTemperature(snap, density, temperature, d)

NextTritium(snap, tritium, d) ==
    IF Skipped(snap) THEN tritium
    ELSE BreedTritium(ConsumeFuel(tritium, Consumed(snap.fusion_power, d)),
                      snap.tritium_production_rate, d)

NextDeuterium(snap, deuterium, d) ==
    IF Skipped(snap) THEN deuterium
    ELSE ConsumeFuel(deuterium, Consumed(snap.fusion_power, d))

NextDamageUnguarded(snap, damage, d) == AccumulateDamage(damage, snap.dpa_rate, d)

NextDamage(snap, damage, d) ==
    IF Skipped(snap) THEN damage
    ELSE AccumulateDamage(damage, snap.dpa_rate, d)

\* 433, after the early return
AdvanceTime(snap, t, d) == IF Skipped(snap) THEN t ELSE t + d

EvolveState(d, snap, density, ms) ==
    Mutable(NextTemperature(snap, density, ms.temperature, d),
            NextTritium(snap, ms.tritium, d),
            NextDeuterium(snap, ms.deuterium, d),
            NextDamage(snap, ms.damage, d),
            AdvanceTime(snap, ms.time, d))

Current ==
    Mutable(current_temperature, tritium_inventory, deuterium_inventory,
            accumulated_damage, simulation_time)

(***************************************************************************)
(* Inputs of run().  A simulator that is run again is run with the         *)
(* arguments of its first run.                                             *)
(***************************************************************************)
\* a run of one step of 1e8 s, about 3.2 years
LongRun == 100000000

\* <<max_time, dt, save_interval>>
RunArguments ==
    {<<0, 25, 40>>,
     <<MaxTimeBound, 0, 40>>,
     <<MaxTimeBound, 25, 10>>,
     <<MaxTimeBound, 25, 40>>,
     <<MaxTimeBound, 35, 40>>,
     <<LongRun, LongRun, LongRun>>}

\* time steps of the direct calls of evolve_state
CallDts == {25}

(***************************************************************************)
(* The state after construction (simulator.py 96-124).                     *)
(***************************************************************************)
Init ==
    /\ config \in Configs
    /\ current_temperature = config.initial_temperature
    /\ current_density = config.initial_density
    /\ tritium_inventory = config.initial_tritium_inventory
    /\ deuterium_inventory = config.initial_deuterium_inventory
    /\ accumulated_damage = 0
    /\ simulation_time = 0
    /\ history = <<>>
    /\ current_state = <<>>
    /\ state = <<>>
    /\ last_save_time = 0
    /\ max_time = 0
    /\ dt = 0
    /\ save_interval = 0
    /\ pc = "idle"
    /\ stats = <<>>
    /\ runs = 0
    /\ calls = 0
    /\ raised = ""
    /\ previous = <<>>
    /\ computed = <<>>
    /\ probe = <<>>
    /\ search = <<>>

(***************************************************************************)
(* run (simulator.py 485-541), one action per step of the method.          *)
(***************************************************************************)
LoopCondition(t, mt) == t < mt

ShouldSave(t, last, si) == t - last >= si

\* 529-532: the break of the loop
BreaksOnDiagnostics(snap) == snap.failed \/ Len(snap.errors) + Len(snap.warnings) > 0

ShouldBreak(snap) == snap.failed

\* 499-504: an attribute is reset to its configured initial value
ResetSkipped(configured, current) == current

Reset(configured, current) == configured

\* 498, 510: the history is emptied, then the initial snapshot is appended
StartHistoryKeepingOld(old, snap) == Append(old, snap)

StartHistory(old, snap) == Append(<<>>, snap)

\* 497-511: reset, initial snapshot
RunStart(mt, d, si) ==
    /\ pc \in {"idle", "done"}
    /\ runs < MaxRuns
    /\ runs > 0 => (mt = max_time /\ d = dt /\ si = save_interval)
    /\ current_temperature' = Reset(config.initial_temperature, current_temperature)
    /\ current_density' = Reset(config.initial_density, current_density)
    /\ tritium_inventory' = Reset(config.initial_tritium_inventory, tritium_inventory)
    /\ deuterium_inventory' = Reset(config.initial_deuterium_inventory, deuterium_inventory)
    /\ accumulated_damage' = Reset(0, accumulated_damage)
    /\ simulation_time' = Reset(0, simulation_time)
    /\ \E snap \in {CalculateState(config, current_density', current_temperature',
                                  tritium_inventory', deuterium_inventory',
                                  accumulated_damage', simulation_time')} :
         /\ history' = StartHistory(history, snap)
         /\ current_state' = <<snap>>
         /\ state' = <<snap>>
    /\ last_save_time' = 0 - si
    /\ max_time' = mt
    /\ dt' = d
    /\ save_interval' = si
    /\ pc' = "loop"
    /\ runs' = runs + 1
    /\ calls' = 0
    /\ stats' = <<>>
    /\ raised' = ""
    /\ computed' = <<>>
    /\ previous' = IF pc = "done"
                   THEN <<[history |-> history, final |-> current_state[1]]>>
                   ELSE previous
    /\ UNCHANGED <<probe, search, config>>

\* 514-539: one iteration of the time stepping loop
RunIterate ==
    /\ pc = "loop"
    /\ LoopCondition(simulation_time, max_time)
    /\ \E ms \in {IF ~state[1].failed /\ state[1].operational
                   THEN EvolveState(dt, state[1], current_density, Current)
                   ELSE Current} :
           \E snap \in {CalculateState(config, current_density, ms.temperature,
                                        ms.tritium, ms.deuterium, ms.damage, ms.time)} :
             \E save \in {ShouldSave(ms.time, last_save_time, save_interval)} :
                 /\ current_temperature' = ms.temperature
                 /\ tritium_inventory' = ms.tritium
                 /\ deuterium_inventory' = ms.deuterium
                 /\ accumulated_damage' = ms.damage
                 /\ simulation_time' = ms.time
                 /\ state' = <<snap>>
                 /\ current_state' = <<snap>>
                 /\ history' = IF save THEN Append(history, snap) ELSE history
                 /\ last_save_time' = IF save THEN ms.time ELSE last_save_time
                 /\ pc' = IF ShouldBreak(snap) THEN "done" ELSE "loop"
    /\ UNCHANGED <<previous, computed, probe, search, config, current_density, max_time, dt, save_interval,
                   stats, raised, runs, calls>>

\* 514, 541: the loop condition is false, run returns self.current_state
RunExit ==
    /\ pc = "loop"
    /\ ~LoopCondition(simulation_time, max_time)
    /\ pc' = "done"
    /\ UNCHANGED <<previous, computed, probe, search, config, current_temperature, current_density,
                   tritium_inventory, deuterium_inventory, accumulated_damage,
                   simulation_time, history, current_state, state,
                   last_save_time, max_time, dt, save_interval, stats, raised, runs, calls>>

(***************************************************************************)
(* get_operation_statistics (simulator.py 543-618), called after a run.    *)
(***************************************************************************)
\* arithmetic on quotients (the fractions of CalculateQFactor): a < b by
\* the cross products, a sum over the least common denominator
Less(a, b) ==
    LET left  == Product(Abs(a.num), b.den, 32768)
        right == Product(Abs(b.num), a.den, 32768)
    IN  IF a.num < 0 /\ b.num >= 0 THEN TRUE
        ELSE IF a.num >= 0 /\ b.num < 0 THEN FALSE
        ELSE IF a.num >= 0
        THEN left.q < right.q \/ (left.q = right.q /\ left.r < right.r)
        ELSE right.q < left.q \/ (left.q = right.q /\ right.r < left.r)

Plus(a, b) ==
    LET g == GCD(a.den, b.den)
    IN  Quotient(a.num * (b.den \div g) + b.num * (a.den \div g),
                 a.den * (b.den \div g))

RECURSIVE Sum(_)
Sum(qs) == IF qs = <<>> THEN Quotient(0, 1) ELSE Plus(qs[1], Sum(Tail(qs)))

RECURSIVE Largest(_)
Largest(qs) ==
    IF qs = <<>> THEN Quotient(0, 1)
    ELSE IF Len(qs) = 1 THEN qs[1]
    ELSE IF Less(Largest(Tail(qs)), qs[1]) THEN qs[1] ELSE Largest(Tail(qs))

\* 557-563: average and maximum Q factor over the operational history entries
OperationalStates == SelectSeq(history, LAMBDA s : s.operational)

FiniteQFactors ==
    LET qs == [i \in 1..Len(OperationalStates) |-> OperationalStates[i].q_factor]
    IN  SelectSeq(qs, LAMBDA q : ~IsInf(q))

AverageQFactor ==
    IF OperationalStates # <<>>
    THEN LET total == Sum(FiniteQFactors)
         IN  Quotient(total.num, total.den * Len(OperationalStates))
    ELSE Quotient(0, 1)

MaxQFactor ==
    IF OperationalStates # <<>> THEN Largest(FiniteQFactors) ELSE Quotient(0, 1)

\* 566-572: energy of the operational history entries up to the next entry,
\* power * dt, in GJ
RECURSIVE EnergyUpTo(_)
EnergyUpTo(i) ==
    IF i = 0 THEN 0
    ELSE EnergyUpTo(i - 1)
         + (IF history[i].operational
            THEN Scaled(history[i].fusion_power,
                        history[i + 1].simulation_time - history[i].simulation_time,
                        1000000)
            ELSE 0)

TotalEnergy == IF Len(history) > 1 THEN EnergyUpTo(Len(history) - 1) ELSE 0

\* natural numbers of any size, for the products of three factors: the
\* digits to the base 10000, the lowest first
BASE == 10000

RECURSIVE Digits(_)
Digits(n) == IF n = 0 THEN <<>> ELSE <<n % BASE>> \o Digits(n \div BASE)

RECURSIVE PlusDigits(_, _, _)
PlusDigits(x, y, carry) ==
    IF x = <<>> /\ y = <<>> THEN Digits(carry)
    ELSE LET sum == (IF x = <<>> THEN 0 ELSE x[1]) + (IF y = <<>> THEN 0 ELSE y[1]) + carry
         IN  <<sum % BASE>>
             \o PlusDigits(IF x = <<>> THEN <<>> ELSE Tail(x),
                           IF y = <<>> THEN <<>> ELSE Tail(y),
                           sum \div BASE)

RECURSIVE TimesDigit(_, _, _)
TimesDigit(x, d, carry) ==
    IF x = <<>> THEN Digits(carry)
    ELSE <<(x[1] * d + carry) % BASE>>
         \o TimesDigit(Tail(x), d, (x[1] * d + carry) \div BASE)

RECURSIVE TimesDigits(_, _)
TimesDigits(x, y) ==
    IF y = <<>> THEN <<>>
    ELSE CHOOSE s \in {PlusDigits(low, <<0>> \o high, 0) :
                          low \in {TimesDigit(x, y[1], 0)},
                          high \in {TimesDigits(x, Tail(y))}} : TRUE

\* x < y by the highest digit that differs, from digit i down
RECURSIVE LessFrom(_, _, _)
LessFrom(x, y, i) ==
    LET a == IF i <= Len(x) THEN x[i] ELSE 0
        b == IF i <= Len(y) THEN y[i] ELSE 0
    IN  IF i = 0 THEN FALSE
        ELSE IF a # b THEN a < b
        ELSE LessFrom(x, y, i - 1)

\* a projected time: the quotient num/den of units of `unit` seconds;
\* +infinity is the quotient 1/0
Time(q, unit) == [num |-> q.num, den |-> q.den, unit |-> unit]

Never == Time(Infinity, 1)

\* 590, 601: seconds_remaining < max_runtime_prediction, by the cross
\* products
Earlier(a, b) ==
    \E left \in {TimesDigits(TimesDigits(Digits(Abs(a.num)), Digits(a.unit)), Digits(b.den))} :
    \E right \in {TimesDigits(TimesDigits(Digits(Abs(b.num)), Digits(b.unit)), Digits(a.den))} :
        IF a.num < 0 /\ b.num >= 0 THEN TRUE
        ELSE IF a.num >= 0 /\ b.num < 0 THEN FALSE
        ELSE IF a.num >= 0 THEN LessFrom(left, right, Max(Len(left), Len(right)))
        ELSE LessFrom(right, left, Max(Len(left), Len(right)))

\* 580-591: time until the first wall reaches its damage limit, +infinity
\* when the projection is not made; the remaining damage over the damage
\* rate is a time in years
DamageProjection(cfg, final_state) ==
    LET remaining_damage == MaxDpa(cfg.first_wall_material) - final_state.material_damage
    IN  IF final_state.dpa_rate > 0 /\ remaining_damage > 0
        THEN Time(Quotient(remaining_damage, final_state.dpa_rate), SECONDS_PER_YEAR)
        ELSE Never

\* 594: tritium_breeding_ratio < 1.0
ChecksTritium(final_state) ==
    BreedingRatioBelowOne(final_state.tritium_production_rate,
                          final_state.tritium_consumption_rate)

\* 595-597: production / breeding ratio is a division of floats by the 0.0
\* that calculate_tritium_breeding_ratio returns when nothing is consumed and
\* nothing is produced
DividesByZero(final_state) ==
    /\ final_state.tritium_consumption_rate = 0
    /\ ~(final_state.tritium_production_rate > 0)

\* 595-597: consumption_rate = production - production / breeding ratio.
\* The breeding ratio is production / consumption, so the quotient is the
\* consumption when something is produced; when nothing is produced the
\* quotient 0 / 0 of numpy floats is not a number, which compares false.
IsNumber(final_state) == final_state.tritium_production_rate > 0

ConsumptionRate(final_state) ==
    final_state.tritium_production_rate - final_state.tritium_consumption_rate

\* 600: tritium_inventory / consumption_rate; the inventory over the rate
\* is a time in units of 2819831 s
DepletionTime(inventory, rate) ==
    Time(Quotient(inventory, rate), ENERGY_PER_FUSION)

\* 598-602: time until the tritium inventory is used up, +infinity when the
\* projection is not made
TritiumProjection(final_state) ==
    IF ChecksTritium(final_state)
       /\ IsNumber(final_state)
       /\ ConsumptionRate(final_state) > 0
       /\ final_state.tritium_inventory > 0
    THEN DepletionTime(final_state.tritium_inventory, ConsumptionRate(final_state))
    ELSE Never

\* 574-602
RuntimePrediction(cfg, final_state) ==
    LET by_damage  == DamageProjection(cfg, final_state)
        by_tritium == TritiumProjection(final_state)
    IN  IF Earlier(by_tritium, by_damage)
        THEN [seconds |-> by_tritium, limiting_factor |-> "Tritium inventory depletion"]
        ELSE IF ~IsInf(by_damage)
        THEN [seconds |-> by_damage, limiting_factor |-> "Material damage"]
        ELSE [seconds |-> Never, limiting_factor |-> "None (can run indefinitely)"]

\* 604-618
OperationStatistics ==
    LET final_state == current_state[1]
        prediction  == RuntimePrediction(config, final_state)
    IN  [max_operation_time |-> simulation_time,
         failed |-> final_state.failed,
         failure_cause |-> IF final_state.failed THEN final_state.failure_cause ELSE "None",
         average_q_factor |-> AverageQFactor,
         max_q_factor |-> MaxQFactor,
         total_energy_produced |-> TotalEnergy,
         max_runtime_prediction |-> prediction.seconds,
         limiting_factor |-> prediction.limiting_factor,
         can_run_indefinitely |-> IsInf(prediction.seconds)]

\* the exception that leaves get_operation_statistics, "" if it returns
StatisticsRaise ==
    IF history # <<>> /\ ChecksTritium(current_state[1]) /\ DividesByZero(current_state[1])
    THEN "ZeroDivisionError" ELSE ""

GetOperationStatistics ==
    /\ pc = "done"
    /\ \E exception \in {StatisticsRaise} :
         /\ raised' = exception
         /\ stats' = IF history = <<>> \/ exception # ""
                     THEN <<>> ELSE <<OperationStatistics>>
    /\ UNCHANGED <<previous, computed, probe, search, config, current_temperature, current_density,
                   tritium_inventory, deuterium_inventory, accumulated_damage,
                   simulation_time, history, current_state, state,
                   last_save_time, max_time, dt, save_interval, pc, runs, calls>>

(***************************************************************************)
(* evolve_state called by a client of the simulator, after a run, with a   *)
(* snapshot the simulator has handed out.                                  *)
(***************************************************************************)
HandedOut == {history[i] : i \in 1..Len(history)} \cup {current_state[i] : i \in 1..Len(current_state)}

EvolveStateCall(d, snap) ==
    /\ pc = "done"
    /\ calls < MaxCalls
    /\ \E ms \in {EvolveState(d, snap, current_density, Current)} :
           /\ current_temperature' = ms.temperature
           /\ tritium_inventory' = ms.tritium
           /\ deuterium_inventory' = ms.deuterium
           /\ accumulated_damage' = ms.damage
           /\ simulation_time' = ms.time
    /\ calls' = calls + 1
    /\ stats' = <<>>
    /\ raised' = ""
    /\ computed' = <<>>
    /\ UNCHANGED <<previous, probe, search, config, current_density, history, current_state, state,
                   last_save_time, max_time, dt, save_interval, pc, runs>>

(***************************************************************************)
(* calculate_state called by a client of the simulator, on a constructed   *)
(* simulator or on the state a run has left behind: it reads the           *)
(* configuration and the time dependent state, assigns no attribute, and   *)
(* returns the snapshot.                                                   *)
(***************************************************************************)
CalculateStateCall ==
    /\ pc \in {"idle", "done"}
    /\ calls = 0
    /\ \E snap \in {CalculateState(config, current_density, current_temperature,
                                  tritium_inventory, deuterium_inventory,
                                  accumulated_damage, simulation_time)} :
         computed' = <<snap>>
    /\ UNCHANGED <<current_temperature, tritium_inventory, deuterium_inventory,
                   accumulated_damage, simulation_time,
                   previous, probe, search, config, current_density,
                   history, current_state, state,
                   last_save_time, max_time, dt, save_interval, pc, stats, raised,
                   runs, calls>>

(***************************************************************************)
(* optimize_parameters (simulator.py 620-660): a grid search that writes   *)
(* every grid point into self.config and calls calculate_state, which      *)
(* reads the current temperature and density, not the configured ones.     *)
(* Every grid point thus yields the same snapshot; after the loops         *)
(* self.config holds the last grid point, and the snapshot becomes         *)
(* current_state when its Q is finite and positive.  The model follows a   *)
(* simulator up to the return of optimize_parameters.                      *)
(***************************************************************************)
\* 635-636: the last point of temp_range (20e6 K) and of density_range (2e20)
LAST_GRID_TEMPERATURE == 20
LAST_GRID_DENSITY == 2

\* 646: not np.isinf(q) and q > best_q, with best_q = 0.0
BeatsBestQ(q) == ~IsInf(q) /\ q.num > 0

GridSearchedConfig(cfg) ==
    [cfg EXCEPT !.initial_temperature = LAST_GRID_TEMPERATURE,
                !.initial_density = LAST_GRID_DENSITY]

OptimizeParameters ==
    /\ pc \in {"idle", "done"}
    /\ calls = 0
    /\ \E cfg \in {GridSearchedConfig(config)} :
         \E snap \in {CalculateState(cfg, current_density, current_temperature,
                                      tritium_inventory, deuterium_inventory,
                                      accumulated_damage, simulation_time)} :
             /\ config' = cfg
             /\ current_state' = IF BeatsBestQ(snap.q_factor) THEN <<snap>> ELSE current_state
    /\ pc' = "optimized"
    /\ stats' = <<>>
    /\ raised' = ""
    /\ computed' = <<>>
    /\ UNCHANGED <<previous, probe, search, current_temperature, current_density,
                   tritium_inventory, deuterium_inventory, accumulated_damage,
                   simulation_time, history, state, last_save_time, max_time,
                   dt, save_interval, runs, calls>>

Next ==
    \/ \E a \in RunArguments : RunStart(a[1], a[2], a[3])
    \/ RunIterate
    \/ RunExit
    \/ GetOperationStatistics
    \/ \E d \in CallDts, snap \in HandedOut : EvolveStateCall(d, snap)
    \/ CalculateStateCall
    \/ OptimizeParameters

Spec == Init /\ [][Next]_vars

(***************************************************************************)
(* The runs of a simulator alone.  run() is sequential code: once entered, *)
(* its loop keeps executing, which is the weak fairness of the steps of    *)
(* the loop.                                                               *)
(***************************************************************************)
RunLoop == RunIterate \/ RunExit

RunNext ==
    \/ \E a \in RunArguments : RunStart(a[1], a[2], a[3])
    \/ RunIterate
    \/ RunExit

FairSpec == Init /\ [][RunNext]_vars /\ WF_vars(RunLoop)

(***************************************************************************)
(* The stateless helpers, called by a client on a constructed simulator:   *)
(* each call leaves the simulator alone; probe records the one call of a   *)
(* behaviour: what was called, with which arguments, what was returned.    *)
(***************************************************************************)
Probe(op, args, result) == <<[op |-> op, args |-> args, result |-> result]>>

UntouchedSimulator ==
    UNCHANGED <<previous, computed, config, current_temperature, current_density,
                tritium_inventory, deuterium_inventory, accumulated_damage,
                simulation_time, history, current_state, state,
                last_save_time, max_time, dt, save_interval, pc, stats, raised, runs, calls>>

UntouchedByHelper == UntouchedSimulator /\ UNCHANGED search

\* arguments of calculate_q_factor
QFactorPowers == {0, 3, 50, 500}

CalculateQFactorCall(fusion_power, input_power) ==
    /\ probe = <<>>
    /\ probe' = Probe("calculate_q_factor", <<fusion_power, input_power>>,
                      CalculateQFactor(fusion_power, input_power))
    /\ UntouchedByHelper

(***************************************************************************)
(* Persisted configurations (optimize.py): --save writes a JSON mapping of *)
(* fields of the best configuration, --load builds a ReactorConfiguration  *)
(* from the keys of such a mapping, the dataclass defaults filling in the  *)
(* fields the mapping does not name.  json.dump and json.load keep the     *)
(* keys, the numbers and the strings of a mapping.                         *)
(***************************************************************************)
ConfigurationFields == DOMAIN ReactorConfiguration

\* a second value for every field of a configuration
OtherConfiguration ==
    [major_radius |-> 3000000,
     minor_radius |-> 1000000,
     elongation |-> 2000000,
     triangularity |-> 50,
     toroidal_field |-> 8000000,
     plasma_current |-> 5,
     initial_temperature |-> 200,
     initial_density |-> 2,
     first_wall_material |-> "beryllium",
     blanket_material |-> "lithium",
     blanket_thickness |-> 5,
     input_power |-> 0,
     auxiliary_heating |-> 20000,
     current_drive_power |-> 10000,
     initial_tritium_inventory |-> 50,
     initial_deuterium_inventory |-> 200,
     min_tritium_inventory |-> 1000]

Changed(fields) ==
    [f \in ConfigurationFields |->
        IF f \in fields THEN OtherConfiguration[f] ELSE ReactorConfiguration[f]]

\* the configurations handed to the helpers: the defaults with at most two
\* fields changed
Configurations == {Changed({f, g}) : f \in ConfigurationFields, g \in ConfigurationFields}
                  \cup {Changed({})}

\* optimize.py 141-155: the keys of config_dict
SavedFields ==
    {"major_radius", "minor_radius", "elongation", "triangularity",
     "toroidal_field", "plasma_current", "initial_temperature",
     "initial_density", "input_power", "auxiliary_heating",
     "current_drive_power", "initial_tritium_inventory",
     "initial_deuterium_inventory"}

SaveConfiguration(cfg) == [f \in SavedFields |-> cfg[f]]

\* optimize.py 48-50: ReactorConfiguration(**config_dict)
LoadConfiguration(config_dict) ==
    [f \in ConfigurationFields |->
        IF f \in DOMAIN config_dict THEN config_dict[f] ELSE ReactorConfiguration[f]]

SaveThenLoadCall(cfg) ==
    /\ probe = <<>>
    /\ probe' = Probe("save_load", <<cfg>>, LoadConfiguration(SaveConfiguration(cfg)))
    /\ UntouchedByHelper

(***************************************************************************)
(* The failure detection of calculate_state applied to an error list: the  *)
(* errors calculate_state can report together at an elapsed time, in any   *)
(* order.                                                                  *)
(***************************************************************************)
ErrorTags == {"fw_temp", "q_crit", "q_low", "lawson", "tbr", "damage", "tritium", "deuterium"}

\* the elapsed times of a classification: during startup, after both grace periods
DetectionTimes == {0, 100}

\* the errors some snapshot at elapsed time t can report together
CanReport(tags, t) ==
    /\ ~({"q_crit", "q_low"} \subseteq tags)
    /\ "q_low" \in tags => t > STARTUP_TOLERANCE
    /\ "lawson" \in tags => t > LAWSON_STARTUP_TIME

ErrorLists(t) ==
    {<<>>}
    \cup {<<a>> : a \in {x \in ErrorTags : CanReport({x}, t)}}
    \cup {<<p[1], p[2]>> : p \in {q \in ErrorTags \X ErrorTags :
              q[1] # q[2] /\ CanReport({q[1], q[2]}, t)}}
    \cup {<<p[1], p[2], p[3]>> : p \in {q \in ErrorTags \X ErrorTags \X ErrorTags :
              /\ Cardinality({q[1], q[2], q[3]}) = 3
              /\ CanReport({q[1], q[2], q[3]}, t)}}

FailureDetectionCall(errors, t) ==
    /\ probe = <<>>
    /\ probe' = Probe("failure_detection", <<errors, t>>, FailureDetection(errors, t))
    /\ UntouchedByHelper

(***************************************************************************)
(* ParameterOptimizer (optimization/parameter_optimizer.py): bounds and    *)
(* perturbations of configurations, in the units of ReactorConfiguration.  *)
(* The lower density bound, 0.5e20 m^-3, is half a unit of density.  The   *)
(* densities of the model are whole units, and clamping a whole density of *)
(* at least one unit at half a unit or at one unit is the same; the calls  *)
(* whose perturbed density is below one unit are left out (InUnits).       *)
(***************************************************************************)
ParameterBounds ==
    [major_radius |-> <<3000000, 10000000>>,
     minor_radius |-> <<500000, 3000000>>,
     elongation |-> <<1000000, 2500000>>,
     toroidal_field |-> <<2000000, 20000000>>,
     plasma_current |-> <<5, 20>>,
     initial_temperature |-> <<50, 300>>,
     initial_density |-> <<1, 3>>]

PerturbedFields == DOMAIN ParameterBounds

\* the fields _apply_perturbation copies from the configuration it is given
CopiedFields ==
    {"triangularity", "input_power", "auxiliary_heating", "current_drive_power",
     "initial_tritium_inventory", "initial_deuterium_inventory"}

\* 295-303: the size of the perturbation of each field, for ck = 10
PerturbationScale ==
    [major_radius |-> 5000000,
     minor_radius |-> 2000000,
     elongation |-> 1000000,
     toroidal_field |-> 10000000,
     plasma_current |-> 10,
     initial_temperature |-> 100,
     initial_density |-> 1]

\* the draws of np.random.choice([-1, 1]) the model follows
SignVectors ==
    {[f \in PerturbedFields |-> 1],
     [f \in PerturbedFields |-> 0 - 1],
     [f \in PerturbedFields |->
         IF f \in {"major_radius", "plasma_current", "initial_density"} THEN 1 ELSE 0 - 1]}

GeneratePerturbation(signs) ==
    [f \in PerturbedFields |-> signs[f] * PerturbationScale[f]]

\* 250: {k: -v for k, v in perturbation.items()}
Negated(perturbation) == [f \in DOMAIN perturbation |-> 0 - perturbation[f]]

\* perturbation.get(f, 0)
Get(perturbation, f) == IF f \in DOMAIN perturbation THEN perturbation[f] ELSE 0

Clamp(bounds, x) == Max(bounds[1], Min(bounds[2], x))

\* 305-336: the keywords ReactorConfiguration(...) is called with; the
\* dataclass defaults fill in the fields that are not passed
ApplyPerturbation(cfg, perturbation) ==
    [f \in ConfigurationFields |->
        IF f \in PerturbedFields
        THEN Clamp(ParameterBounds[f], cfg[f] + Get(perturbation, f))
        ELSE IF f \in CopiedFields THEN cfg[f]
        ELSE ReactorConfiguration[f]]

\* 338-344
UpdateConfig(cfg, update) == ApplyPerturbation(cfg, update)

\* the perturbations handed to _apply_perturbation: generated ones, their
\* negations, and dictionaries naming one field or none
Perturbations ==
    {GeneratePerturbation(s) : s \in SignVectors}
    \cup {[f \in {g} |-> PerturbationScale[g]] : g \in PerturbedFields}
    \cup {[f \in {} |-> 0]}

InUnits(cfg, perturbation) ==
    cfg.initial_density + Get(perturbation, "initial_density") >= 1

ApplyPerturbationCall(cfg, perturbation) ==
    /\ probe = <<>>
    /\ InUnits(cfg, perturbation)
    /\ probe' = Probe("apply_perturbation", <<cfg, perturbation>>,
                      ApplyPerturbation(cfg, perturbation))
    /\ UntouchedByHelper

(***************************************************************************)
(* The safety factor check of calculate_state (simulator.py 267-289)       *)
(* applied to a safety factor (in tenths) at an elapsed time.              *)
(***************************************************************************)
SafetyFactorProbes == {11, 14, 15, 17, 19, 20, 25, 29, 30, 35}

GraceTimes == {0, 30, 31, 100}

SafetyCheckCall(q, t) ==
    /\ probe = <<>>
    /\ probe' = Probe("safety_check", <<q, t>>,
                      [errors |-> SafetyErrors(q, t), warnings |-> SafetyWarnings(q, t)])
    /\ UntouchedByHelper

FunctionInit == Init /\ config = ReferenceConfig

FunctionNext ==
    \/ \E fp \in QFactorPowers, ip \in QFactorPowers : CalculateQFactorCall(fp, ip)
    \/ \E cfg \in Configurations : SaveThenLoadCall(cfg)
    \/ \E t \in DetectionTimes : \E errors \in ErrorLists(t) : FailureDetectionCall(errors, t)
    \/ \E q \in SafetyFactorProbes, t \in GraceTimes : SafetyCheckCall(q, t)
    \/ \E cfg \in Configurations, p \in Perturbations : ApplyPerturbationCall(cfg, p)

FunctionSpec == FunctionInit /\ [][FunctionNext]_vars

(***************************************************************************)
(* ParameterOptimizer.score_configuration (parameter_optimizer.py 81-151): *)
(* a new simulator is run on a configuration for max_time seconds with     *)
(* dt = 1.0 and the score is computed from the statistics and the final    *)
(* snapshot of the run.  Scores, gradients and updates are in millionths.  *)
(*                                                                         *)
(* The configurations of the search have another geometry, field,          *)
(* current, temperature and density than the runs modelled above.  The     *)
(* outcome of the run of score_configuration on each configuration the     *)
(* search scores is tabulated from the code: a row is                      *)
(*   <<max_time, major_radius, minor_radius, elongation, toroidal_field,   *)
(*     plasma_current, initial_temperature, initial_density,               *)
(*     max_operation_time, failed, q_factor (millionths), safety_factor    *)
(*     (tenths), meets_lawson_criterion, output_power (kW)>>               *)
(* for a configuration whose other fields are the defaults.  No run of     *)
(* the table raises, and the input power of every row is positive, so      *)
(* that the Q factor is finite.                                            *)
(***************************************************************************)
MILLION == 1000000

\* the max_time argument of spsa_optimize
SearchTimes == {1, 60, 1260}

OutcomeTable ==
    {<<1, 3000000, 500000, 1000000, 2000000, 5, 50, 1, 0, TRUE, 1390, 1, FALSE, 0 - 33660>>,
     <<1, 3000000, 2500000, 2000000, 12899972, 5, 250, 1, 1, FALSE, 8686066, 268, FALSE, 83076>>,
     <<1, 3000000, 2500000, 2000000, 13051571, 5, 250, 1, 1, FALSE, 8686066, 271, FALSE, 83076>>,
     <<1, 3000000, 2500000, 2000000, 13051995, 5, 250, 1, 1, FALSE, 8686066, 271, FALSE, 83076>>,
     <<1, 3000000, 2500000, 2000000, 13301571, 5, 250, 1, 1, FALSE, 8686066, 277, FALSE, 83076>>,
     <<1, 3000000, 2500000, 2000000, 13301738, 5, 250, 1, 1, FALSE, 8686066, 277, FALSE, 83076>>,
     <<1, 3000000, 2500000, 2000000, 13453587, 5, 250, 1, 1, FALSE, 8686066, 280, FALSE, 83076>>,
     <<1, 3000000, 2500000, 2000000, 14099986, 5, 250, 1, 1, FALSE, 8686066, 293, FALSE, 83076>>,
     <<1, 3000000, 2500000, 2000000, 14251585, 5, 250, 1, 1, FALSE, 8686066, 296, FALSE, 83076>>,
     <<1, 3000000, 2500000, 2000000, 15599972, 5, 250, 1, 1, FALSE, 8686066, 324, FALSE, 83076>>,
     <<1, 3000000, 2500000, 2000000, 15751995, 5, 250, 1, 1, FALSE, 8686066, 328, FALSE, 83076>>,
     <<1, 3000000, 2500000, 2000000, 16001738, 5, 250, 1, 1, FALSE, 8686066, 333, FALSE, 83076>>,
     <<1, 3000000, 2500000, 2000000, 16799986, 5, 250, 1, 1, FALSE, 8686066, 349, FALSE, 83076>>,
     <<1, 3000000, 3000000, 2500000, 15300000, 5, 250, 1, 1, FALSE, 14569136, 459, FALSE, 159994>>,
     <<1, 3000000, 3000000, 2500000, 18000000, 5, 250, 1, 1, FALSE, 14569136, 540, FALSE, 159994>>,
     <<1, 3295996, 500000, 1000000, 2000000, 5, 50, 1, 0, TRUE, 1527, 1, FALSE, 0 - 33676>>,
     <<1, 3295996, 2500000, 2000000, 14252002, 5, 250, 1, 1, FALSE, 9412050, 270, FALSE, 92567>>,
     <<1, 3295996, 2500000, 2000000, 16952002, 5, 250, 1, 1, FALSE, 9412050, 321, FALSE, 92567>>,
     <<1, 4891992, 500000, 1000000, 2000000, 5, 50, 1, 0, TRUE, 2267, 1, FALSE, 0 - 33761>>,
     <<1, 4891992, 2500000, 2000000, 13454004, 5, 250, 1, 1, FALSE, 13324279, 171, FALSE, 143718>>,
     <<1, 4891992, 2500000, 2000000, 16154004, 5, 250, 1, 1, FALSE, 13324279, 206, FALSE, 143718>>,
     <<1, 8000000, 500000, 1000000, 2000000, 20, 50, 3, 0, TRUE, 33363, 0, FALSE, 0 - 37344>>,
     <<1, 8000000, 2500000, 2000000, 12899972, 20, 250, 3, 1, FALSE, 255402816, 25, TRUE, 3485806>>,
     <<1, 8000000, 2500000, 2000000, 13051571, 20, 250, 3, 1, FALSE, 255402816, 25, TRUE, 3485806>>,
     <<1, 8000000, 2500000, 2000000, 14099986, 20, 250, 3, 1, FALSE, 255402816, 27, TRUE, 3485806>>,
     <<1, 8000000, 2500000, 2000000, 15599972, 20, 250, 3, 1, FALSE, 255402816, 30, TRUE, 3485806>>,
     <<1, 8000000, 3000000, 2500000, 15300000, 20, 250, 3, 1, FALSE, 459725069, 43, TRUE, 6301251>>,
     <<1, 8799972, 500000, 1000000, 2000000, 20, 50, 3, 0, TRUE, 36699, 0, FALSE, 0 - 37728>>,
     <<1, 8799972, 2500000, 2000000, 14099986, 20, 250, 3, 1, FALSE, 280942204, 25, TRUE, 3837724>>,
     <<1, 8799972, 2500000, 2000000, 16799986, 20, 250, 3, 1, FALSE, 280942204, 29, TRUE, 3837724>>,
     <<1, 9596830, 500000, 1000000, 2000000, 20, 50, 3, 0, TRUE, 40022, 0, FALSE, 0 - 38111>>,
     <<1, 9596830, 2500000, 2000000, 13301571, 20, 250, 3, 1, FALSE, 306382176, 21, TRUE, 4188272>>,
     <<1, 10000000, 500000, 1000000, 2000000, 20, 50, 3, 0, TRUE, 41703, 0, FALSE, 0 - 38305>>,
     <<1, 10000000, 2500000, 2000000, 13051995, 20, 250, 3, 1, FALSE, 319253520, 20, TRUE, 4365632>>,
     <<1, 10000000, 2500000, 2000000, 13301738, 20, 250, 3, 1, FALSE, 319253520, 20, TRUE, 4365632>>,
     <<1, 10000000, 2500000, 2000000, 13453587, 20, 250, 3, 1, FALSE, 319253520, 21, TRUE, 4365632>>,
     <<1, 10000000, 2500000, 2000000, 13454004, 20, 250, 3, 1, FALSE, 319253520, 21, TRUE, 4365632>>,
     <<1, 10000000, 2500000, 2000000, 14251585, 20, 250, 3, 1, FALSE, 319253520, 22, TRUE, 4365632>>,
     <<1, 10000000, 2500000, 2000000, 14252002, 20, 250, 3, 1, FALSE, 319253520, 22, TRUE, 4365632>>,
     <<1, 10000000, 2500000, 2000000, 15751995, 20, 250, 3, 1, FALSE, 319253520, 24, TRUE, 4365632>>,
     <<1, 10000000, 2500000, 2000000, 16001738, 20, 250, 3, 1, FALSE, 319253520, 25, TRUE, 4365632>>,
     <<1, 10000000, 2500000, 2000000, 16154004, 20, 250, 3, 1, FALSE, 319253520, 25, TRUE, 4365632>>,
     <<1, 10000000, 2500000, 2000000, 16952002, 20, 250, 3, 1, FALSE, 319253520, 26, TRUE, 4365632>>,
     <<1, 10000000, 3000000, 2500000, 15300000, 20, 250, 3, 1, FALSE, 574656337, 34, TRUE, 7884938>>,
     <<1, 10000000, 3000000, 2500000, 18000000, 20, 250, 3, 1, FALSE, 574656337, 40, TRUE, 7884938>>,
     <<60, 3000000, 500000, 1000000, 2000000, 5, 50, 1, 0, TRUE, 1390, 1, FALSE, 0 - 33660>>,
     <<60, 3000000, 2500000, 2000000, 12000000, 5, 250, 1, 60, FALSE, 10641784, 250, FALSE, 113138>>,
     <<60, 3000000, 2500000, 2000000, 12041737, 5, 250, 1, 60, FALSE, 10641784, 250, FALSE, 113138>>,
     <<60, 3000000, 2500000, 2000000, 12042185, 5, 250, 1, 60, FALSE, 10641784, 250, FALSE, 113138>>,
     <<60, 3000000, 2500000, 2000000, 13595069, 5, 250, 1, 60, FALSE, 10641784, 283, FALSE, 113138>>,
     <<60, 3000000, 2500000, 2000000, 13746668, 5, 250, 1, 60, FALSE, 10641784, 286, FALSE, 113138>>,
     <<60, 3000000, 2500000, 2000000, 14590138, 5, 250, 1, 60, FALSE, 10641784, 303, FALSE, 113138>>,
     <<60, 3000000, 2500000, 2000000, 14741737, 5, 250, 1, 60, FALSE, 10641784, 307, FALSE, 113138>>,
     <<60, 3000000, 2500000, 2000000, 14742185, 5, 250, 1, 60, FALSE, 10641784, 307, FALSE, 113138>>,
     <<60, 3000000, 2500000, 2000000, 16295069, 5, 250, 1, 60, FALSE, 10641784, 339, FALSE, 113138>>,
     <<60, 3000000, 3000000, 2500000, 15300000, 5, 250, 1, 60, FALSE, 19155211, 459, FALSE, 230448>>,
     <<60, 3000000, 3000000, 2500000, 18000000, 5, 250, 1, 60, FALSE, 19155211, 540, FALSE, 230448>>,
     <<60, 4212494, 500000, 1000000, 2000000, 5, 50, 1, 0, TRUE, 1952, 1, FALSE, 0 - 33725>>,
     <<60, 4212494, 2500000, 2000000, 12193753, 5, 250, 1, 60, FALSE, 14942817, 180, FALSE, 172404>>,
     <<60, 4305830, 500000, 1000000, 2000000, 5, 50, 1, 0, TRUE, 1995, 1, FALSE, 0 - 33730>>,
     <<60, 4305830, 2500000, 2000000, 13747085, 5, 250, 1, 60, FALSE, 15273904, 199, FALSE, 176966>>,
     <<60, 4305830, 2500000, 2000000, 16447085, 5, 250, 1, 60, FALSE, 15273904, 238, FALSE, 176966>>,
     <<60, 5000000, 500000, 1000000, 2000000, 5, 50, 1, 0, TRUE, 2317, 0, FALSE, 0 - 33767>>,
     <<60, 5000000, 2500000, 2000000, 12194170, 5, 250, 1, 60, FALSE, 17736307, 152, FALSE, 210896>>,
     <<60, 5000000, 2500000, 2000000, 14894170, 5, 250, 1, 60, FALSE, 17736307, 186, FALSE, 210896>>,
     <<60, 8000000, 500000, 1000000, 2000000, 20, 50, 3, 0, TRUE, 33363, 0, FALSE, 0 - 37344>>,
     <<60, 8000000, 2500000, 2000000, 12000000, 20, 250, 3, 60, FALSE, 255402816, 23, TRUE, 3485806>>,
     <<60, 8000000, 2500000, 2000000, 12041737, 20, 250, 3, 60, FALSE, 255402816, 23, TRUE, 3485806>>,
     <<60, 8000000, 2500000, 2000000, 13595069, 20, 250, 3, 60, FALSE, 255402816, 26, TRUE, 3485806>>,
     <<60, 8000000, 2500000, 2000000, 14590138, 20, 250, 3, 60, FALSE, 255402816, 28, TRUE, 3485806>>,
     <<60, 8000000, 2500000, 2000000, 16295069, 20, 250, 3, 60, FALSE, 255402816, 31, TRUE, 3485806>>,
     <<60, 8000000, 3000000, 2500000, 15300000, 20, 250, 3, 60, FALSE, 459725069, 43, TRUE, 6301251>>,
     <<60, 10000000, 500000, 1000000, 2000000, 20, 50, 3, 0, TRUE, 41703, 0, FALSE, 0 - 38305>>,
     <<60, 10000000, 2500000, 2000000, 12041737, 20, 250, 3, 31, TRUE, 319253520, 18, TRUE, 4365632>>,
     <<60, 10000000, 2500000, 2000000, 12042185, 20, 250, 3, 31, TRUE, 319253520, 18, TRUE, 4365632>>,
     <<60, 10000000, 2500000, 2000000, 12193753, 20, 250, 3, 31, TRUE, 319253520, 19, TRUE, 4365632>>,
     <<60, 10000000, 2500000, 2000000, 12194170, 20, 250, 3, 31, TRUE, 319253520, 19, TRUE, 4365632>>,
     <<60, 10000000, 2500000, 2000000, 13746668, 20, 250, 3, 60, FALSE, 319253520, 21, TRUE, 4365632>>,
     <<60, 10000000, 2500000, 2000000, 13747085, 20, 250, 3, 60, FALSE, 319253520, 21, TRUE, 4365632>>,
     <<60, 10000000, 2500000, 2000000, 14741737, 20, 250, 3, 60, FALSE, 319253520, 23, TRUE, 4365632>>,
     <<60, 10000000, 2500000, 2000000, 14742185, 20, 250, 3, 60, FALSE, 319253520, 23, TRUE, 4365632>>,
     <<60, 10000000, 2500000, 2000000, 14894170, 20, 250, 3, 60, FALSE, 319253520, 23, TRUE, 4365632>>,
     <<60, 10000000, 2500000, 2000000, 16447085, 20, 250, 3, 60, FALSE, 319253520, 25, TRUE, 4365632>>,
     <<60, 10000000, 3000000, 2500000, 15300000, 20, 250, 3, 60, FALSE, 574656337, 34, TRUE, 7884938>>,
     <<60, 10000000, 3000000, 2500000, 18000000, 20, 250, 3, 60, FALSE, 574656337, 40, TRUE, 7884938>>,
     <<1260, 3000000, 500000, 1000000, 2000000, 5, 50, 1, 0, TRUE, 1390, 1, FALSE, 0 - 33660>>,
     <<1260, 3000000, 2500000, 2000000, 12000000, 5, 250, 1, 61, TRUE, 10641784, 250, FALSE, 113138>>,
     <<1260, 3000000, 2500000, 2000000, 12995069, 5, 250, 1, 61, TRUE, 10641784, 270, FALSE, 113138>>,
     <<1260, 3000000, 2500000, 2000000, 13390138, 5, 250, 1, 61, TRUE, 10641784, 278, FALSE, 113138>>,
     <<1260, 3000000, 2500000, 2000000, 13996585, 5, 250, 1, 61, TRUE, 10641784, 291, FALSE, 113138>>,
     <<1260, 3000000, 2500000, 2000000, 14391654, 5, 250, 1, 61, TRUE, 10641784, 299, FALSE, 113138>>,
     <<1260, 3000000, 2500000, 2000000, 14392090, 5, 250, 1, 61, TRUE, 10641784, 299, FALSE, 113138>>,
     <<1260, 3000000, 2500000, 2000000, 15695069, 5, 250, 1, 61, TRUE, 10641784, 326, FALSE, 113138>>,
     <<1260, 3000000, 3000000, 2500000, 15300000, 5, 250, 1, 61, TRUE, 19155211, 459, FALSE, 230448>>,
     <<1260, 3000000, 3000000, 2500000, 18000000, 5, 250, 1, 61, TRUE, 19155211, 540, FALSE, 230448>>,
     <<1260, 3212826, 500000, 1000000, 2000000, 5, 50, 1, 0, TRUE, 1489, 1, FALSE, 0 - 33672>>,
     <<1260, 3212826, 2500000, 2000000, 12693587, 5, 250, 1, 61, TRUE, 11396733, 246, FALSE, 123541>>,
     <<1260, 3805996, 500000, 1000000, 2000000, 5, 50, 1, 0, TRUE, 1764, 1, FALSE, 0 - 33703>>,
     <<1260, 3805996, 2500000, 2000000, 13997002, 5, 250, 1, 61, TRUE, 13500862, 229, FALSE, 152534>>,
     <<1260, 3805996, 2500000, 2000000, 16697002, 5, 250, 1, 61, TRUE, 13500862, 274, FALSE, 152534>>,
     <<1260, 5000000, 500000, 1000000, 2000000, 5, 50, 1, 0, TRUE, 2317, 0, FALSE, 0 - 33767>>,
     <<1260, 5000000, 2500000, 2000000, 12694004, 5, 250, 1, 61, TRUE, 17736307, 158, FALSE, 210896>>,
     <<1260, 5000000, 2500000, 2000000, 15394004, 5, 250, 1, 61, TRUE, 17736307, 192, FALSE, 210896>>,
     <<1260, 8000000, 500000, 1000000, 2000000, 20, 50, 3, 0, TRUE, 33363, 0, FALSE, 0 - 37344>>,
     <<1260, 8000000, 2500000, 2000000, 12000000, 20, 250, 3, 1260, FALSE, 255402816, 23, TRUE, 3485806>>,
     <<1260, 8000000, 2500000, 2000000, 12995069, 20, 250, 3, 1260, FALSE, 255402816, 25, TRUE, 3485806>>,
     <<1260, 8000000, 2500000, 2000000, 13390138, 20, 250, 3, 1260, FALSE, 255402816, 26, TRUE, 3485806>>,
     <<1260, 8000000, 2500000, 2000000, 15695069, 20, 250, 3, 1260, FALSE, 255402816, 30, TRUE, 3485806>>,
     <<1260, 8000000, 3000000, 2500000, 15300000, 20, 250, 3, 1260, FALSE, 459725069, 43, TRUE, 6301251>>,
     <<1260, 9196172, 500000, 1000000, 2000000, 20, 50, 3, 0, TRUE, 38351, 0, FALSE, 0 - 37919>>,
     <<1260, 9196172, 2500000, 2000000, 12000000, 20, 250, 3, 1260, FALSE, 293591028, 20, TRUE, 4012018>>,
     <<1260, 9196172, 2500000, 2000000, 14392090, 20, 250, 3, 1260, FALSE, 293591028, 24, TRUE, 4012018>>,
     <<1260, 10000000, 500000, 1000000, 2000000, 20, 50, 3, 0, TRUE, 41703, 0, FALSE, 0 - 38305>>,
     <<1260, 10000000, 2500000, 2000000, 12000000, 20, 250, 3, 31, TRUE, 319253520, 18, TRUE, 4365632>>,
     <<1260, 10000000, 2500000, 2000000, 12693587, 20, 250, 3, 31, TRUE, 319253520, 19, TRUE, 4365632>>,
     <<1260, 10000000, 2500000, 2000000, 12694004, 20, 250, 3, 31, TRUE, 319253520, 19, TRUE, 4365632>>,
     <<1260, 10000000, 2500000, 2000000, 13996585, 20, 250, 3, 1260, FALSE, 319253520, 21, TRUE, 4365632>>,
     <<1260, 10000000, 2500000, 2000000, 13997002, 20, 250, 3, 1260, FALSE, 319253520, 21, TRUE, 4365632>>,
     <<1260, 10000000, 2500000, 2000000, 14391654, 20, 250, 3, 1260, FALSE, 319253520, 22, TRUE, 4365632>>,
     <<1260, 10000000, 2500000, 2000000, 15394004, 20, 250, 3, 1260, FALSE, 319253520, 24, TRUE, 4365632>>,
     <<1260, 10000000, 2500000, 2000000, 16697002, 20, 250, 3, 1260, FALSE, 319253520, 26, TRUE, 4365632>>,
     <<1260, 10000000, 3000000, 2500000, 15300000, 20, 250, 3, 1260, FALSE, 574656337, 34, TRUE, 7884938>>,
     <<1260, 10000000, 3000000, 2500000, 18000000, 20, 250, 3, 1260, FALSE, 574656337, 40, TRUE, 7884938>>}

\* 101-102: sim.run(max_time=max_time, dt=1.0), sim.get_operation_statistics()
SimulationOutcome(cfg, time) ==
    LET row == CHOOSE r \in OutcomeTable :
                   /\ r[1] = time
                   /\ r[2] = cfg.major_radius
                   /\ r[3] = cfg.minor_radius
                   /\ r[4] = cfg.elongation
                   /\ r[5] = cfg.toroidal_field
                   /\ r[6] = cfg.plasma_current
                   /\ r[7] = cfg.initial_temperature
                   /\ r[8] = cfg.initial_density
                   /\ \A f \in DOMAIN cfg \ DOMAIN ParameterBounds :
                          cfg[f] = ReactorConfiguration[f]
    IN  [raised |-> FALSE,
         max_operation_time |-> row[9],
         failed |-> row[10],
         q_factor |-> row[11],
         safety_factor |-> row[12],
         meets_lawson_criterion |-> row[13],
         output_power |-> row[14]]

\* 99-151: operation_time / 60.0 and 100 for 21 minutes of operation
\* (105-110); min(q * 10.0, 50.0) for a positive Q factor and 50 for
\* q > 10 (113-120); the bonuses for the safety factor (123-128), the Lawson
\* criterion (131-133) and a positive output power (136-138); the penalties
\* (141-146), the floor (148) and the score of a run that raises (150-151)
ScoreConfiguration(outcome) ==
    LET operation_time == outcome.max_operation_time
        q == outcome.q_factor
        q_safety == outcome.safety_factor
    IN  IF outcome.raised THEN 0 - 1000 * MILLION
        ELSE Max(Scaled(operation_time, MILLION, 60)
                 + (IF operation_time >= 1260 THEN 100 * MILLION ELSE 0)
                 + (IF q > 0
                    THEN (IF q >= 5 * MILLION THEN 50 * MILLION ELSE q * 10)
                         + (IF q > 10 * MILLION THEN 50 * MILLION ELSE 0)
                    ELSE 0)
                 + (IF q_safety >= 20 THEN 20 * MILLION
                    ELSE IF q_safety >= 15 THEN 10 * MILLION
                    ELSE 0)
                 + (IF outcome.meets_lawson_criterion THEN 30 * MILLION ELSE 0)
                 + (IF outcome.output_power > 0 THEN 40 * MILLION ELSE 0)
                 - (IF outcome.failed THEN 50 * MILLION ELSE 0)
                 - (IF operation_time < 60 THEN 100 * MILLION ELSE 0),
                 0 - 200 * MILLION)

(***************************************************************************)
(* ParameterOptimizer.spsa_optimize (parameter_optimizer.py 202-291), one  *)
(* action per iteration of its loop.  It is called with alpha = gamma = 0, *)
(* so that the step sizes are ak = a and ck = c in every iteration.  The   *)
(* final snapshot of the run of score_configuration on a configuration is  *)
(* [of |-> configuration]; scores records the score of each configuration  *)
(* simulated so far.                                                       *)
(***************************************************************************)
MaxIterations == 2

\* the arguments a and c
SpsaGain == 1
PerturbationSize == 10

\* the initial_config argument
InitialConfigs ==
    {Changed({"initial_density"}),
     Changed({"initial_density", "major_radius", "blanket_thickness"}),
     Changed({"initial_density", "toroidal_field"})}

\* 1 / unit^2 for the unit of each perturbed field, in millionths.  For the
\* current and the temperature (unit 1e6) and for the density (unit 1e20)
\* it is 1e-18 or less, and a gradient step, at most 2.5e-6 A, 2.5e-7 K or
\* 2.5e-5 m^-3, is below 1e-11 units: 0
PerUnitSquared ==
    [major_radius |-> MILLION,
     minor_radius |-> MILLION,
     elongation |-> MILLION,
     toroidal_field |-> MILLION,
     plasma_current |-> 0,
     initial_temperature |-> 0,
     initial_density |-> 0]

\* 254-260: (score_plus - score_minus) / (2.0 * ck * delta_k), rounded to
\* the unit of the field
GradientEstimate(f, score_plus, score_minus, delta_k) ==
    IF Abs(delta_k) > 0
    THEN LET size == Scaled(Abs(score_plus - score_minus), PerUnitSquared[f],
                            2 * PerturbationSize * Abs(delta_k))
         IN  IF (score_plus < score_minus) = (delta_k < 0) THEN size ELSE 0 - size
    ELSE 0

\* 264: {k: -ak * v for k, v in gradient_estimate.items()}
Update(perturbation, score_plus, score_minus) ==
    [f \in DOMAIN perturbation |->
        0 - SpsaGain * GradientEstimate(f, score_plus, score_minus, perturbation[f])]

\* -np.inf is <<>>, a score s is <<s>>
Beats(score, best_score) == best_score = <<>> \/ score > best_score[1]

\* 218-228
SpsaStart(initial_config, max_iterations, time) ==
    /\ search = <<>>
    /\ search' = <<[k |-> 0,
                    max_iterations |-> max_iterations,
                    max_time |-> time,
                    current_config |-> initial_config,
                    best_score |-> <<>>,
                    best_config |-> initial_config,
                    best_state |-> <<>>,
                    scores |-> [c \in {} |-> 0],
                    returned |-> FALSE]>>
    /\ UntouchedSimulator /\ UNCHANGED probe

\* 231-273 and the loop test of 230
SpsaIterate(signs) ==
    /\ search # <<>>
    /\ ~search[1].returned
    /\ search[1].k < search[1].max_iterations
    /\ InUnits(search[1].current_config, GeneratePerturbation(signs))
    /\ InUnits(search[1].current_config, Negated(GeneratePerturbation(signs)))
    /\ \E perturbation \in {GeneratePerturbation(signs)} :
       \E config_plus \in {ApplyPerturbation(search[1].current_config, perturbation)} :
       \E config_minus \in {ApplyPerturbation(search[1].current_config, Negated(perturbation))} :
       \E score_plus \in {ScoreConfiguration(SimulationOutcome(config_plus, search[1].max_time))} :
       \E score_minus \in {ScoreConfiguration(SimulationOutcome(config_minus, search[1].max_time))} :
       \E update \in {Update(perturbation, score_plus, score_minus)} :
       \E next_config \in {UpdateConfig(search[1].current_config, update)} :
       \E current_score \in {Max(score_plus, score_minus)} :
       \E better \in {Beats(current_score, search[1].best_score)} :
           search' = <<[search[1] EXCEPT
               !.k = @ + 1,
               !.current_config = next_config,
               !.best_score = IF better THEN <<current_score>> ELSE @,
               !.best_config = IF better THEN next_config ELSE @,
               !.best_state = IF better
                              THEN (IF score_plus > score_minus
                                    THEN <<[of |-> config_plus]>>
                                    ELSE <<[of |-> config_minus]>>)
                              ELSE @,
               !.scores = (config_plus :> score_plus) @@ (config_minus :> score_minus) @@ @]>>
    /\ UntouchedSimulator /\ UNCHANGED probe

\* 284-291: the loop is over, the OptimizationResult is returned
SpsaReturn ==
    /\ search # <<>>
    /\ ~search[1].returned
    /\ search[1].k = search[1].max_iterations
    /\ search' = <<[search[1] EXCEPT !.returned = TRUE]>>
    /\ UntouchedSimulator /\ UNCHANGED probe

SearchNext ==
    \/ \E cfg \in InitialConfigs, n \in 1..MaxIterations, time \in SearchTimes :
           SpsaStart(cfg, n, time)
    \/ \E signs \in SignVectors : SpsaIterate(signs)
    \/ SpsaReturn

SearchSpec == FunctionInit /\ [][SearchNext]_vars

(***************************************************************************)
(* Properties of the time stepping loop and of the evolve step.            *)
(***************************************************************************)
\* a run has been entered and nothing but run() has touched the simulator since
InRun == pc = "loop" \/ (pc = "done" /\ calls = 0)

\* C1: within one run, once the last computed snapshot is failed, run()
\* computes no further snapshot and appends nothing to the history: the
\* loop takes no iteration from a state whose snapshot is failed.
C1_NoSnapshotAfterFailure ==
    [][(pc = "loop" /\ state[1].failed) => ~RunIterate]_vars

\* C2: a run with dt > 0 terminates: from every state inside the loop, run()
\* eventually returns, whatever the snapshots turn out to be.
C2_RunTerminates == (pc = "loop" /\ dt > 0) ~> (pc = "done")

\* C2 witness: a run with dt > 0 that went through the loop and returned
\* because the time was up, its last snapshot operational.
C2_Witness ==
    /\ pc = "done" /\ calls = 0
    /\ dt > 0 /\ max_time > 0
    /\ simulation_time >= max_time
    /\ current_state[1].operational

\* C3: when run() returns, the returned snapshot is failed or the elapsed
\* time is >= max_time.
C3_ReturnsFailedOrTimeUp ==
    (pc = "done" /\ calls = 0) =>
        (current_state[1].failed \/ simulation_time >= max_time)

\* C3 witness: run() returned from inside the loop, by the break, before
\* max_time was reached.
C3_Witness ==
    /\ pc = "done" /\ calls = 0
    /\ current_state[1].failed
    /\ 0 < simulation_time /\ simulation_time < max_time

\* C4: for a run with dt > 0, the max_operation_time of the statistics is
\* <= the max_time of the run.
C4_OperationTimeWithinMaxTime ==
    (stats # <<>> /\ calls = 0 /\ dt > 0) =>
        stats[1].max_operation_time <= max_time

\* C5: at every tick of a run, the t = 0 snapshot included, the current
\* temperature is within [TEMP_MIN, TEMP_MAX].
C5_TemperatureInRange ==
    InRun => (/\ TEMP_MIN <= current_temperature
              /\ current_temperature <= TEMP_MAX
              /\ TEMP_MIN <= state[1].temperature
              /\ state[1].temperature <= TEMP_MAX)

\* C6: at every tick of a run (the configured inventories are >= 0), the
\* tritium and the deuterium inventory are >= 0, in the engine and in the
\* snapshot.
C6_InventoriesNonNegative ==
    InRun => (/\ tritium_inventory >= 0
              /\ deuterium_inventory >= 0
              /\ state[1].tritium_inventory >= 0
              /\ state[1].deuterium_inventory >= 0)

\* C6 witness: a run of one tick whose consumption exceeded the deuterium
\* and the tritium left, so that the clamp at 0 acted on both.
C6_Witness ==
    /\ pc = "done" /\ calls = 0
    /\ simulation_time = dt /\ dt > 0
    /\ deuterium_inventory = 0
    /\ history[1].deuterium_inventory > 0
    /\ Consumed(history[1].fusion_power, dt) > history[1].deuterium_inventory
    /\ Consumed(history[1].fusion_power, dt) > history[1].tritium_inventory

\* C7: within one run the accumulated damage starts at 0 at run entry and
\* never decreases from one tick to the next.
C7_DamageNonDecreasing ==
    [][/\ (pc # "loop" /\ pc' = "loop") => accumulated_damage' = 0
       /\ pc = "loop" => (/\ accumulated_damage' >= accumulated_damage
                          /\ state'[1].material_damage >= state[1].material_damage)]_vars

\* C7 witness: a tick that has added damage.
C7_Witness ==
    /\ pc = "loop"
    /\ accumulated_damage > 0
    /\ state[1].material_damage = accumulated_damage

\* C8: every loop iteration computes a snapshot whose elapsed time is the
\* elapsed time of the previously computed snapshot plus dt.
C8_EachIterationAdvancesByDt ==
    [][RunIterate => state'[1].simulation_time = state[1].simulation_time + dt]_vars

\* C9: evolve_state advances the elapsed time by dt whatever the
\* snapshot it is given, failed or non-operational ones included.
C9_TimeAdvancesUnconditionally ==
    [][\A d \in CallDts, snap \in HandedOut :
          EvolveStateCall(d, snap) => simulation_time' = simulation_time + d]_vars

\* every snapshot the simulator has handed out is failed
OnlyFailedHandedOut == \A snap \in HandedOut : snap.failed

\* C10: evolve_state called with a failed or non-operational snapshot
\* changes none of temperature, density, tritium inventory, deuterium
\* inventory and accumulated damage.
C10_SkippedEvolveIsNoOp ==
    [][\A d \in CallDts, snap \in HandedOut :
          (EvolveStateCall(d, snap) /\ (snap.failed \/ ~snap.operational)) =>
              UNCHANGED <<current_temperature, current_density, tritium_inventory,
                          deuterium_inventory, accumulated_damage>>]_vars

\* C10 witness: evolve_state has been called with a failed snapshot whose
\* fusion power and damage rate are positive (an evolution would have
\* changed the inventories and the damage), and the state is the one of the
\* last snapshot of the run.
C10_Witness ==
    /\ pc = "done" /\ calls = 1
    /\ OnlyFailedHandedOut
    /\ current_state[1].fusion_power > 0
    /\ current_state[1].dpa_rate > 0
    /\ accumulated_damage = current_state[1].material_damage
    /\ deuterium_inventory = current_state[1].deuterium_inventory
    /\ tritium_inventory = current_state[1].tritium_inventory
    /\ current_temperature = current_state[1].temperature


(***************************************************************************)
(* Properties of the power balance.                                        *)
(***************************************************************************)
Probed(op) == probe # <<>> /\ probe[1].op = op

\* C11: calculate_q_factor(fusion_power, input_power) returns the quotient
\* fusion_power / input_power when input_power # 0, +infinity when
\* input_power = 0 and fusion_power > 0, and 0 when both are 0.
C11_QFactorIsQuotientWithSentinels ==
    Probed("calculate_q_factor") =>
        LET fp == probe[1].args[1]
            ip == probe[1].args[2]
            q  == probe[1].result
        IN  /\ ip # 0 => (q.den > 0 /\ q.num * ip = fp * q.den)
            /\ (ip = 0 /\ fp > 0) => (q.den = 0 /\ q.num > 0)
            /\ (ip = 0 /\ fp = 0) => (q.den > 0 /\ q.num = 0)

\* C11 witness: calculate_q_factor(500 MW, 50 MW) has returned exactly 10.
C11_Witness ==
    /\ Probed("calculate_q_factor")
    /\ probe[1].args = <<500, 50>>
    /\ probe[1].result = [num |-> 10, den |-> 1]

\* C12 as claimed: in every snapshot the input power of the power balance
\* is config.input_power, whatever the configuration.
C12_InputPowerIsConfigured ==
    \A snap \in HandedOut : snap.input_power = config.input_power

\* C12 amended: in every snapshot the input power of the power balance is
\* config.input_power when that is > 0, and auxiliary_heating +
\* current_drive_power otherwise; Q is +infinity exactly when that input
\* power is 0 and the fusion power is positive.
C12_InputPowerIsConfiguredOrFallback ==
    \A snap \in HandedOut :
        /\ config.input_power > 0 => snap.input_power = config.input_power
        /\ ~(config.input_power > 0) =>
               snap.input_power = config.auxiliary_heating + config.current_drive_power
        /\ IsInf(snap.q_factor) <=> (snap.input_power = 0 /\ snap.fusion_power > 0)

\* C12 witness: a snapshot of a configuration with input_power = 0 and
\* positive auxiliary heating, with positive fusion power and a finite Q.
C12_Witness ==
    /\ config.input_power = 0
    /\ \E snap \in HandedOut :
           /\ snap.fusion_power > 0
           /\ snap.input_power = config.auxiliary_heating
           /\ snap.input_power > 0
           /\ ~IsInf(snap.q_factor)

(***************************************************************************)
(* Properties of the persisted configuration.                              *)
(***************************************************************************)
\* C13: saving a configuration and loading it back yields a configuration
\* equal to the original in every field.
C13_SaveThenLoadIsIdentity ==
    Probed("save_load") =>
        \A f \in ConfigurationFields : probe[1].result[f] = probe[1].args[1][f]

(***************************************************************************)
(* Properties of the failure detection.                                    *)
(***************************************************************************)
Reports(snap, e) == \E i \in 1..Len(snap.errors) : snap.errors[i] = e

\* C14: for a configuration whose min_tritium_inventory exceeds its
\* initial_tritium_inventory, the first computed snapshot of a run (t = 0)
\* is failed; its cause is "Tritium inventory depleted", unless a first wall
\* temperature or a material damage error is present too, and then the
\* cause is the one of that error.
C14_TritiumBelowMinimumFailsAtOnce ==
    (runs > 0 /\ config.min_tritium_inventory > config.initial_tritium_inventory) =>
        /\ history[1].simulation_time = 0
        /\ history[1].failed
        /\ history[1].failure_cause =
              IF Reports(history[1], "fw_temp") THEN "Material temperature limit exceeded"
              ELSE IF Reports(history[1], "damage") THEN "Material damage limit exceeded"
              ELSE "Tritium inventory depleted"

\* C14 witness: a run of such a configuration, whose first snapshot reports
\* the tritium inventory and has the cause "Tritium inventory depleted".
C14_Witness ==
    /\ runs > 0
    /\ config.min_tritium_inventory > config.initial_tritium_inventory
    /\ Reports(history[1], "tritium")
    /\ ~Reports(history[1], "tbr")
    /\ history[1].failure_cause = "Tritium inventory depleted"

\* the subsystem of an error, and the priority of a subsystem
Subsystem(e) ==
    CASE e = "fw_temp" -> "temperature"
      [] e = "damage" -> "damage"
      [] e \in {"tritium", "tbr"} -> "tritium"
      [] e = "deuterium" -> "deuterium"
      [] e = "lawson" -> "lawson"
      [] e \in {"q_crit", "q_low"} -> "safety"

Priority == <<"temperature", "damage", "tritium", "deuterium", "lawson", "safety">>

CauseOf(subsystem) ==
    CASE subsystem = "temperature" -> "Material temperature limit exceeded"
      [] subsystem = "damage" -> "Material damage limit exceeded"
      [] subsystem = "tritium" -> "Tritium inventory depleted"
      [] subsystem = "deuterium" -> "Deuterium inventory depleted"
      [] subsystem = "lawson" -> "Lawson criterion not met after startup period"
      [] subsystem = "safety" -> "Safety factor too low (plasma instability)"

\* C15: a snapshot with several critical errors is failed and its cause is
\* the one of the subsystem of highest priority among its errors, in the
\* order temperature > damage > tritium > deuterium > Lawson > safety
\* factor, whatever the order of the errors in the list.
C15_CauseIsHighestPriority ==
    (Probed("failure_detection") /\ Len(probe[1].args[1]) > 1) =>
        LET errors == probe[1].args[1]
            present == {Subsystem(errors[i]) : i \in 1..Len(errors)}
            first == CHOOSE i \in 1..Len(Priority) :
                        /\ Priority[i] \in present
                        /\ \A j \in 1..(i - 1) : Priority[j] \notin present
        IN  /\ probe[1].result.failed
            /\ probe[1].result.failure_cause = CauseOf(Priority[first])

\* C15 witness: three critical errors listed from the lowest priority to the
\* highest, classified with the cause of the last one.
C15_Witness ==
    /\ Probed("failure_detection")
    /\ probe[1].args[1] = <<"q_low", "deuterium", "fw_temp">>
    /\ probe[1].result.failed
    /\ probe[1].result.failure_cause = "Material temperature limit exceeded"

(***************************************************************************)
(* Properties of the history.                                              *)
(***************************************************************************)
\* C17: once run() has been called, the history is non-empty, its first
\* entry is the snapshot computed at elapsed time 0, and the elapsed times
\* of its entries never decrease along the sequence.
C17_HistoryStartsAtZeroAndAscends ==
    runs > 0 =>
        /\ Len(history) >= 1
        /\ history[1].simulation_time = 0
        /\ \A i \in 1..(Len(history) - 1) :
               history[i].simulation_time <= history[i + 1].simulation_time

\* C17 witness: a second run on the same simulator has returned with three
\* entries in the history, the last one at a positive elapsed time.
C17_Witness ==
    /\ runs = 2 /\ pc = "done"
    /\ Len(history) = 3
    /\ history[3].simulation_time > 0

\* C18: for save_interval > dt > 0, any two consecutive entries of the
\* history, the t = 0 entry included, are at least save_interval apart in
\* elapsed time.  Stated for the runs whose initial snapshot is not failed
\* (after a failed initial snapshot the loop records a second snapshot at
\* t = 0, which is C1).
C18_EntriesAtLeastSaveIntervalApart ==
    (runs > 0 /\ save_interval > dt /\ dt > 0 /\ ~history[1].failed) =>
        \A i \in 1..(Len(history) - 1) :
            history[i + 1].simulation_time - history[i].simulation_time >= save_interval

(***************************************************************************)
(* Properties of the configuration and of repeated runs.                   *)
(***************************************************************************)
\* C19: no operation of the simulator (run, calculate_state, evolve_state,
\* get_operation_statistics, optimize_parameters) modifies a field of the
\* configuration the simulator was constructed with.
C19_ConfigurationNeverModified == [][config' = config]_vars

\* C20: a second run on the same simulator, with the same configuration
\* and the same arguments, returns with the same history and the same final
\* snapshot as the run before it, whatever that run and the calls after it
\* left behind.
C20_RerunRepeatsTheRun ==
    (pc = "done" /\ previous # <<>>) =>
        /\ history = previous[1].history
        /\ current_state[1] = previous[1].final

\* C20 witness: a second run has returned after some ticks, the first run
\* having left a temperature, inventories and an elapsed time that differ
\* from the configured initial values.
C20_Witness ==
    /\ pc = "done" /\ runs = 2 /\ previous # <<>>
    /\ Len(history) >= 2
    /\ previous[1].final.simulation_time > 0
    /\ previous[1].final.temperature # config.initial_temperature
    /\ previous[1].final.deuterium_inventory # config.initial_deuterium_inventory
    /\ current_state[1].simulation_time = previous[1].final.simulation_time

\* C21: after a completed run, get_operation_statistics returns a statistics
\* record and raises no exception, also when the final snapshot has no
\* fusion power or a tritium breeding ratio of 0.
C21_StatisticsNeverRaise ==
    pc = "done" => raised = ""

\* every snapshot calculate_state has produced and that is still held
Produced == HandedOut \cup {computed[i] : i \in 1..Len(computed)}

FailedBecauseOf(snap, k) ==
    snap.failed /\ Mentions(CriticalErrors(snap.errors, snap.simulation_time), k)

\* C22 as stated: for every value of the safety factor, no snapshot with
\* elapsed time <= 30 s is failed because of the safety factor and no
\* snapshot with elapsed time <= 60 s is failed because of the Lawson
\* criterion.
C22_NoFailureWithinGrace ==
    \A s \in Produced :
        /\ s.simulation_time <= 30 => ~FailedBecauseOf(s, "safety")
        /\ s.simulation_time <= 60 => ~FailedBecauseOf(s, "lawson")

\* C22 amended: the grace periods cover the Lawson criterion and a safety
\* factor of at least 1.5; within them the violation is not critical, after
\* them it is.  A safety factor below 1.5 is critical at any elapsed time.
C22_GraceExceptCriticallyLow ==
    \A s \in Produced :
        /\ (s.simulation_time <= 30 /\ s.safety_factor >= 15)
               => ~FailedBecauseOf(s, "safety")
        /\ s.simulation_time <= 60 => ~FailedBecauseOf(s, "lawson")
        /\ (s.simulation_time > 30 /\ s.safety_factor < 20)
               => FailedBecauseOf(s, "safety")
        /\ (s.simulation_time > 60 /\ ~s.meets_lawson_criterion)
               => FailedBecauseOf(s, "lawson")
        /\ s.safety_factor < 15 => FailedBecauseOf(s, "safety")

\* C22 witness: a run with a safety factor between 1.5 and 2.0 and a plasma
\* below the Lawson criterion kept a snapshot inside both grace periods that
\* is not failed, and has ended past the first grace period on a snapshot
\* that is failed because of the safety factor and not because of the
\* Lawson criterion.
C22_Witness ==
    /\ pc = "done" /\ calls = 0
    /\ \E i \in 1..Len(history) :
           /\ history[i].simulation_time <= 30
           /\ history[i].safety_factor >= 15 /\ history[i].safety_factor < 20
           /\ ~history[i].meets_lawson_criterion
           /\ ~history[i].failed
    /\ current_state[1].simulation_time > 30
    /\ current_state[1].simulation_time <= 60
    /\ ~current_state[1].meets_lawson_criterion
    /\ FailedBecauseOf(current_state[1], "safety")
    /\ ~FailedBecauseOf(current_state[1], "lawson")

\* C23: the safety factor diagnostics follow the threshold table: q < 1.5
\* gives an error at any elapsed time; 1.5 <= q < 2.0 gives a warning and no
\* error while the elapsed time is <= 30 s and an error once it is > 30 s;
\* 2.0 <= q < 3.0 gives only a warning; q >= 3.0 gives neither.
C23_SafetyFactorThresholdTable ==
    Probed("safety_check") =>
        LET q == probe[1].args[1]
            t == probe[1].args[2]
            e == probe[1].result.errors
            w == probe[1].result.warnings
        IN  /\ q < 15 => e # <<>>
            /\ (15 <= q /\ q < 20 /\ t <= 30) => (e = <<>> /\ w # <<>>)
            /\ (15 <= q /\ q < 20 /\ t > 30) => e # <<>>
            /\ (20 <= q /\ q < 30) => (e = <<>> /\ w # <<>>)
            /\ q >= 30 => (e = <<>> /\ w = <<>>)

\* C23 witness: a safety factor of exactly 1.5 checked at exactly 30 s has
\* given the startup warning and no error.
C23_Witness ==
    /\ Probed("safety_check")
    /\ probe[1].args = <<15, 30>>
    /\ probe[1].result = [errors |-> <<>>, warnings |-> <<"q_startup">>]

Has(seq, x) == \E i \in 1..Len(seq) : seq[i] = x

\* the snapshots of the current run: the history and the last computed one
OfRun == {history[i] : i \in 1..Len(history)} \cup {state[i] : i \in 1..Len(state)}

\* the plasma has not met the Lawson criterion and no other error has occurred
OnlyLawsonMissed ==
    \A s \in OfRun :
        /\ ~s.meets_lawson_criterion
        /\ \A i \in 1..Len(s.errors) : s.errors[i] = "lawson"

\* C24: in a run where the plasma never meets the Lawson criterion and no
\* other error occurs, every snapshot with elapsed time <= 60 s is
\* operational, with the Lawson startup warning and no error, and a snapshot
\* with elapsed time > 60 s is failed with cause "Lawson criterion not met
\* after startup period" and ends the run.
C24_LawsonFailsAfterStartup ==
    (InRun /\ OnlyLawsonMissed) =>
        \A s \in OfRun :
            /\ s.simulation_time <= 60 =>
                  /\ s.operational /\ ~s.failed
                  /\ s.errors = <<>>
                  /\ Has(s.warnings, "lawson_startup")
            /\ s.simulation_time > 60 =>
                  /\ s.failed /\ ~s.operational
                  /\ s.failure_cause = "Lawson criterion not met after startup period"
                  /\ s = state[1]
                  /\ pc = "done"

\* C24 witness: such a run has kept operational snapshots of the startup
\* period and has returned on a failed snapshot past 60 s.
C24_Witness ==
    /\ pc = "done" /\ calls = 0
    /\ OnlyLawsonMissed
    /\ Len(history) >= 2
    /\ history[2].simulation_time > 0 /\ history[2].simulation_time <= 60
    /\ history[2].operational
    /\ state[1].simulation_time > 60
    /\ state[1].failure_cause = "Lawson criterion not met after startup period"

\* C25: a snapshot whose only error is a tritium breeding ratio below 1.0
\* is failed, at any elapsed time, with the failure cause "Tritium inventory
\* depleted".
C25_BreedingRatioAloneFails ==
    \A s \in Produced :
        s.errors = <<"tbr">> =>
            /\ s.failed
            /\ s.failure_cause = "Tritium inventory depleted"

\* C25 witness: a run has ended after the startup on a snapshot that reports
\* the breeding ratio and nothing else, with both inventories above their
\* minimums.
C25_Witness ==
    /\ pc = "done" /\ calls = 0
    /\ current_state[1].errors = <<"tbr">>
    /\ current_state[1].simulation_time > 0
    /\ current_state[1].tritium_inventory >= config.min_tritium_inventory
    /\ current_state[1].deuterium_inventory >= MIN_FUEL_ATOMS
    /\ current_state[1].failed

(***************************************************************************)
(* Properties of the statistics.                                           *)
(***************************************************************************)
\* the tritium inventory of a snapshot divided by its net consumption rate
NetConsumptionProjection(snap) ==
    DepletionTime(snap.tritium_inventory,
                  snap.tritium_consumption_rate - snap.tritium_production_rate)

\* C26: when the final snapshot has 0 < breeding ratio < 1 and a positive
\* tritium inventory, and the inventory divided by the net consumption rate
\* (consumption minus production) is smaller than the damage projection, the
\* statistics report it as max_runtime_prediction with the limiting factor
\* "Tritium inventory depletion".
C26_TritiumProjectionReported ==
    (stats # <<>>
       /\ current_state[1].tritium_production_rate > 0
       /\ current_state[1].tritium_production_rate < current_state[1].tritium_consumption_rate
       /\ current_state[1].tritium_inventory > 0
       /\ Earlier(NetConsumptionProjection(current_state[1]),
                  DamageProjection(config, current_state[1])))
    => /\ stats[1].max_runtime_prediction = NetConsumptionProjection(current_state[1])
       /\ stats[1].limiting_factor = "Tritium inventory depletion"

\* C28: when the final snapshot of a run is failed, the statistics do not
\* report can_run_indefinitely = true.  Stated for a final snapshot with
\* neutron damage going on and a breeding ratio of at least 1, where the
\* tritium projection does not apply.
C28_FailedNeverRunsIndefinitely ==
    (stats # <<>>
       /\ stats[1].failed
       /\ current_state[1].dpa_rate > 0
       /\ ~ChecksTritium(current_state[1]))
    => ~stats[1].can_run_indefinitely

\* C27: in every snapshot calculate_state produces, operational is the
\* negation of failed (no snapshot is non-operational without being failed),
\* and every iteration of the loop that does not break has evolved the state
\* and advanced the time by dt.
C27_OperationalIsNotFailed ==
    [][/\ \A s \in Produced' \cup OfRun' : s.operational = ~s.failed
       /\ (RunIterate /\ pc' = "loop") =>
              /\ ~Skipped(state[1])
              /\ simulation_time' = simulation_time + dt]_vars

\* C27 witness: a run has taken iterations that did not break, from
\* operational snapshots, and has then broken on a failed, non-operational
\* one.
C27_Witness ==
    /\ pc = "done" /\ calls = 0 /\ dt > 0
    /\ Len(history) >= 2
    /\ history[2].simulation_time = dt
    /\ history[2].operational /\ ~history[2].failed
    /\ current_state[1].simulation_time = 2 * dt
    /\ current_state[1].failed /\ ~current_state[1].operational

(***************************************************************************)
(* Properties of the parameter optimizer.                                  *)
(***************************************************************************)
\* C29: _apply_perturbation(config, perturbation) returns a configuration
\* in which every field not named in the perturbation equals the field of
\* the configuration it was given.
C29_UnnamedFieldsKept ==
    Probed("apply_perturbation") =>
        \A f \in ConfigurationFields \ DOMAIN probe[1].args[2] :
            probe[1].result[f] = probe[1].args[1][f]

\* C30: the best_config returned by spsa_optimize is a configuration that
\* was simulated during the search and whose score is best_score, and
\* best_state is the final snapshot of the run of that configuration.
C30_BestConfigWasSimulated ==
    (search # <<>> /\ search[1].returned) =>
        /\ search[1].best_config \in DOMAIN search[1].scores
        /\ search[1].best_score = <<search[1].scores[search[1].best_config]>>
        /\ search[1].best_state = <<[of |-> search[1].best_config]>>

====
